---- MODULE Spec2Model ----
(***************************************************************************)
(* SJZIP (COSMOS_TGP): the alphabet, the front orders, the mixed-radix     *)
(* chunk codec and the optimized codec, as a state machine over the calls  *)
(* a client makes on one codec instance.                                   *)
(*                                                                         *)
(* A Python str is a finite sequence of code points (integers); a one      *)
(* character string is a sequence of length 1.  bytes are sequences of     *)
(* integers in 0..255.  A call returns Ok(value) or raises, Err(message).  *)
(***************************************************************************)
EXTENDS Integers, Sequences, FiniteSets

(***************************************************************************)
(* Bounds of the model.  The source's CHUNK_SIZE is 500 (codec.py:16); the *)
(* model keeps the name and scales the value.                              *)
(***************************************************************************)
CHUNK_SIZE == 4

MaxShortLen == 2

MaxElapsed == 1

\* the largest order of a curve in the model (the codec uses order 8)
MaxOrder == 2

\* the widest field of a scaling configuration in the model (the source
\* admits up to 32 bits)
MaxBits == 17

(***************************************************************************)
(* Return values and exceptions                                            *)
(***************************************************************************)
None == "None"

Ok(v) == [ok |-> TRUE, val |-> v]

Err(msg) == [ok |-> FALSE, err |-> msg]

ErrAt(msg, idx) == [ok |-> FALSE, err |-> msg, pos |-> idx]

chr(i) == <<i>>

(***************************************************************************)
(* alphabet.py                                                             *)
(* The character lists are samples of the source's lists that keep their   *)
(* shape: printable ASCII, Hangul with a repeated entry, and the extra     *)
(* characters, where the source text                                       *)
(*     "'", "'", """, """, "•"                                             *)
(* is two apostrophes (both already among the printable ASCII) followed by *)
(* ONE triple-quoted literal whose value is the two characters ", ".       *)
(***************************************************************************)
_BASE_PRINTABLE == <<chr(32), chr(39), chr(44), chr(65)>>

_KOREAN_CHARS == <<chr(54616), chr(54616)>>

_EXTRA_CHARS == <<chr(39), chr(39), <<44, 32>>>>

RECURSIVE BuildAlphabet(_, _, _)
BuildAlphabet(chars, i, acc) ==
    IF i > Len(chars) THEN acc
    ELSE IF \E k \in 1..Len(acc) : acc[k] = chars[i]
         THEN BuildAlphabet(chars, i + 1, acc)
         ELSE BuildAlphabet(chars, i + 1, Append(acc, chars[i]))

ALPHABET == BuildAlphabet(_BASE_PRINTABLE \o _KOREAN_CHARS \o _EXTRA_CHARS, 1, <<chr(0)>>)

ALPHABET_SIZE == Len(ALPHABET)

SUPPORTED_CHARS == LET alphabet == ALPHABET IN {alphabet[k] : k \in 1..Len(alphabet)}

\* CHAR_TO_INDEX[char]: the 0-based index of an alphabet entry
CHAR_TO_INDEX(char) ==
    LET alphabet == ALPHABET
    IN  (CHOOSE k \in 1..Len(alphabet) : alphabet[k] = char) - 1

INDEX_TO_CHAR(idx) == ALPHABET[idx + 1]

ensure_supported(char) ==
    IF Len(char) # 1 THEN Err("Expected single character")
    ELSE IF char \notin SUPPORTED_CHARS THEN Err("Unsupported character")
    ELSE Ok(None)

RECURSIVE FirstUnsupported(_, _)
FirstUnsupported(text, i) ==
    IF i > Len(text) THEN Ok(None)
    ELSE IF chr(text[i]) \notin SUPPORTED_CHARS
         THEN ErrAt("Unsupported character at position", i - 1)
         ELSE FirstUnsupported(text, i + 1)

\* variant: the limit itself is already too long
validate_text_exclusive(text, max_length) ==
    IF Len(text) >= max_length THEN Err("Text exceeds maximum length")
    ELSE FirstUnsupported(text, 1)

\* variant: the characters are looked at before the length
validate_text_chars_first(text, max_length) ==
    LET c == FirstUnsupported(text, 1)
    IN  IF ~c.ok THEN c
        ELSE IF Len(text) > max_length THEN Err("Text exceeds maximum length")
        ELSE Ok(None)

validate_text(text, max_length) ==
    IF Len(text) > max_length THEN Err("Text exceeds maximum length")
    ELSE FirstUnsupported(text, 1)

(***************************************************************************)
(* front_space.py                                                          *)
(***************************************************************************)
\* for char in ALPHABET: if char in order: continue; order.append(char)
RECURSIVE AppendRest(_, _, _)
AppendRest(alphabet, order, i) ==
    IF i > Len(alphabet) THEN order
    ELSE IF \E k \in 1..Len(order) : order[k] = alphabet[i]
         THEN AppendRest(alphabet, order, i + 1)
         ELSE AppendRest(alphabet, Append(order, alphabet[i]), i + 1)

\* variant: the anchor 'A' comes before the front character
BuildFrontOrder_anchor_first(alphabet, front) ==
    AppendRest(alphabet, IF front # chr(65) THEN <<chr(65), front>> ELSE <<front>>, 1)

\* the body of "for front in ALPHABET": front, then 'A', then the rest
BuildFrontOrder(alphabet, front) ==
    LET o1 == <<front>>
        o2 == IF front # chr(65) /\ ~(\E k \in 1..Len(o1) : o1[k] = chr(65))
              THEN Append(o1, chr(65)) ELSE o1
    IN  AppendRest(alphabet, o2, 1)

\* _FRONT_ORDERS[front] = tuple(order), for front in ALPHABET
_FRONT_ORDERS ==
    LET alphabet == ALPHABET
    IN  [front \in {alphabet[k] : k \in 1..Len(alphabet)} |-> BuildFrontOrder(alphabet, front)]

\* {char: idx for idx, char in enumerate(order)}: the last idx that holds char
Positions(order) ==
    [char \in {order[k] : k \in 1..Len(order)} |->
        (CHOOSE k \in 1..Len(order) :
            order[k] = char /\ \A j \in (k + 1)..Len(order) : order[j] # char) - 1]

_FRONT_POSITIONS ==
    LET alphabet == ALPHABET
    IN  [front \in {alphabet[k] : k \in 1..Len(alphabet)} |->
            Positions(BuildFrontOrder(alphabet, front))]

front_order(front) ==
    LET e == ensure_supported(front)
    IN  IF ~e.ok THEN e
        ELSE IF front \notin DOMAIN _FRONT_ORDERS THEN Err("No front order for character")
        ELSE Ok(_FRONT_ORDERS[front])

front_position(front, char) ==
    LET e1 == ensure_supported(front)
        e2 == ensure_supported(char)
    IN  IF ~e1.ok THEN e1
        ELSE IF ~e2.ok THEN e2
        ELSE IF char \notin DOMAIN _FRONT_POSITIONS[front]
             THEN Err("Character not found in front ordering")
        ELSE Ok(_FRONT_POSITIONS[front][char])

(***************************************************************************)
(* mapper.py                                                               *)
(* The spiral coordinates are floating-point functions of the alphabet     *)
(* index alone (cos, sin, clip).  A coordinate is carried as the pair of   *)
(* its axis and the index it was computed from; np.clip keeps every one of *)
(* them inside [0, 1].                                                     *)
(***************************************************************************)
Coord(axis, idx) == [axis |-> axis, index |-> idx]

SpiralProperties(idx) ==
    [char |-> ALPHABET[idx + 1], index |-> idx,
     angle_rad |-> Coord("angle_rad", idx), radius |-> Coord("radius", idx),
     depth |-> Coord("depth", idx),
     x |-> Coord("x", idx), y |-> Coord("y", idx),
     z |-> Coord("z", idx), t |-> Coord("t", idx)]

\* {row.char: SpiralProperties(...) for row in character_map}, a row per
\* index of ALPHABET
_property_cache ==
    LET alphabet == ALPHABET
    IN  [char \in {alphabet[k] : k \in 1..Len(alphabet)} |->
            SpiralProperties(CHAR_TO_INDEX(char))]

\* a float that was not computed by the mapper but read from eight bytes:
\* the double with that big-endian bit pattern
FloatBits(b) == [axis |-> "bits", index |-> b]

\* 0 <= v <= 1 for the double with bit pattern b: sign 0 and exponent below
\* 0x3FF, or exactly 1.0, or -0.0 (0 <= -0.0 holds); NaN and infinities fail
BitsInUnitRange(b) ==
    \/ b[1] < 63
    \/ b[1] = 63 /\ b[2] < 240
    \/ b = <<63, 240, 0, 0, 0, 0, 0, 0>>
    \/ b = <<128, 0, 0, 0, 0, 0, 0, 0>>

\* 0 <= coord <= 1: what np.clip(..., 0.0, 1.0) returns, or a bit pattern
\* in that range
InUnitRange(coord) ==
    \/ /\ coord.axis \in {"x", "y", "z", "t"}
       /\ 0 <= coord.index /\ coord.index < ALPHABET_SIZE
    \/ /\ coord.axis = "bits"
       /\ BitsInUnitRange(coord.index)

get_properties(char) ==
    LET e == ensure_supported(char)
    IN  IF ~e.ok THEN e
        ELSE IF char \notin DOMAIN _property_cache THEN Err("Character not in property cache")
        ELSE Ok(_property_cache[char])

get_index(char) ==
    LET e == ensure_supported(char)
    IN  IF ~e.ok THEN e ELSE Ok(CHAR_TO_INDEX(char))

get_front_id(char) == get_index(char)

(***************************************************************************)
(* codec.py: constants, DotRecord                                          *)
(***************************************************************************)
MAX_FILE_SIZE == 100 * 1024 * 1024

MAX_PAYLOAD_SIZE == 10 * 1024 * 1024

_BASE == ALPHABET_SIZE

\* DotRecord(...) with its __post_init__ validation
DotRecord(front_index, length, x, y, z, t, payload) ==
    IF ~(0 <= front_index /\ front_index < ALPHABET_SIZE) THEN Err("Invalid front_index")
    ELSE IF ~(1 <= length /\ length <= CHUNK_SIZE) THEN Err("Invalid length")
    ELSE IF Len(payload) > MAX_PAYLOAD_SIZE THEN Err("Payload exceeds maximum size")
    ELSE IF ~(\A c \in {x, y, z, t} : InUnitRange(c)) THEN Err("Coordinates must be in [0, 1] range")
    ELSE Ok([front_index |-> front_index, length |-> length,
             x |-> x, y |-> y, z |-> z, t |-> t, payload |-> payload])

(***************************************************************************)
(* Python int <-> bytes                                                    *)
(***************************************************************************)
RECURSIVE bit_length(_)
bit_length(value) == IF value = 0 THEN 0 ELSE 1 + bit_length(value \div 2)

\* variant: value.to_bytes(length, "little")
RECURSIVE int_to_bytes_little(_, _)
int_to_bytes_little(value, length) ==
    IF length = 0 THEN <<>>
    ELSE <<value % 256>> \o int_to_bytes_little(value \div 256, length - 1)

\* value.to_bytes(length, "big")
RECURSIVE int_to_bytes(_, _)
int_to_bytes(value, length) ==
    IF length = 0 THEN <<>>
    ELSE Append(int_to_bytes(value \div 256, length - 1), value % 256)

\* variant: int.from_bytes(payload, "little")
RECURSIVE int_from_bytes_little(_)
int_from_bytes_little(payload) ==
    IF payload = <<>> THEN 0
    ELSE payload[1] + 256 * int_from_bytes_little(Tail(payload))

\* int.from_bytes(payload, "big")
RECURSIVE int_from_bytes(_)
int_from_bytes(payload) ==
    IF payload = <<>> THEN 0
    ELSE int_from_bytes(SubSeq(payload, 1, Len(payload) - 1)) * 256 + payload[Len(payload)]

RECURSIVE IsPowerOfTwo(_)
IsPowerOfTwo(value) ==
    IF value <= 1 THEN value = 1
    ELSE value % 2 = 0 /\ IsPowerOfTwo(value \div 2)

\* new_value > 2 ** (MAX_PAYLOAD_SIZE * 8), decided on the bit length
ExceedsMaxSafeValue(value) ==
    \/ bit_length(value) > MAX_PAYLOAD_SIZE * 8 + 1
    \/ bit_length(value) = MAX_PAYLOAD_SIZE * 8 + 1 /\ ~IsPowerOfTwo(value)

(***************************************************************************)
(* codec.py: SJZIPCodec                                                    *)
(***************************************************************************)
RECURSIVE DigitsLoop(_, _, _, _)
DigitsLoop(front_char, text, i, digits) ==
    IF i > Len(text) THEN Ok(digits)
    ELSE LET e == ensure_supported(chr(text[i]))
             p == front_position(front_char, chr(text[i]))
         IN  IF ~e.ok THEN e
             ELSE IF ~p.ok THEN p
             ELSE DigitsLoop(front_char, text, i + 1, Append(digits, p.val))

_digits_from_text(front_char, text) ==
    IF text = <<>> THEN Err("Text cannot be empty")
    ELSE LET v == validate_text(text, CHUNK_SIZE)
             o == front_order(front_char)
         IN  IF ~v.ok THEN v
             ELSE IF ~o.ok THEN o
             ELSE DigitsLoop(front_char, text, 1, <<>>)

RECURSIVE ValueLoop(_, _, _)
ValueLoop(indices, i, value) ==
    IF i > Len(indices) THEN Ok(value)
    ELSE LET new_value == value * _BASE + indices[i]
         IN  IF ExceedsMaxSafeValue(new_value) THEN Err("Value overflow in payload encoding")
             ELSE ValueLoop(indices, i + 1, new_value)

_payload_from_indices(indices) ==
    IF \E i \in 1..Len(indices) : ~(0 <= indices[i] /\ indices[i] < _BASE)
    THEN Err("Invalid index")
    ELSE LET v == ValueLoop(indices, 1, 0)
         IN  IF ~v.ok THEN v
             ELSE IF v.val = 0 THEN Ok(<<0>>)
             ELSE LET length == (bit_length(v.val) + 7) \div 8
                  IN  IF length > MAX_PAYLOAD_SIZE THEN Err("Payload length exceeds maximum")
                      ELSE Ok(int_to_bytes(v.val, length))

\* variant: range(length) is not reversed, the least significant digit
\* comes first
RECURSIVE IndicesLoop_forward(_, _, _)
IndicesLoop_forward(value, pos, indices) ==
    IF pos < 1 THEN [value |-> value, indices |-> indices]
    ELSE IndicesLoop_forward(value \div _BASE, pos - 1,
                             [indices EXCEPT ![Len(indices) - pos + 1] = value % _BASE])

\* for pos in reversed(range(length)): indices[pos] = value % _BASE; value //= _BASE
RECURSIVE IndicesLoop(_, _, _)
IndicesLoop(value, pos, indices) ==
    IF pos < 1 THEN [value |-> value, indices |-> indices]
    ELSE IndicesLoop(value \div _BASE, pos - 1, [indices EXCEPT ![pos] = value % _BASE])

\* variant: what is left of the value after `length` digits is ignored
_indices_from_payload_lenient(payload, length) ==
    IF payload = <<>> THEN Err("Payload cannot be empty")
    ELSE IF length <= 0 \/ length > CHUNK_SIZE THEN Err("Invalid length")
    ELSE Ok(IndicesLoop(int_from_bytes(payload), length, [k \in 1..length |-> 0]).indices)

_indices_from_payload(payload, length) ==
    IF payload = <<>> THEN Err("Payload cannot be empty")
    ELSE IF length <= 0 \/ length > CHUNK_SIZE THEN Err("Invalid length")
    ELSE IF Len(payload) > MAX_PAYLOAD_SIZE THEN Err("Payload exceeds maximum size")
    ELSE LET r == IndicesLoop(int_from_bytes(payload), length, [k \in 1..length |-> 0])
         IN  IF r.value # 0 THEN Err("Payload contained excess data beyond expected length")
             ELSE Ok(r.indices)

\* encode_chunk, from the payload on: last_char, props, front_index, DotRecord
encode_chunk_record(text, payload, props, front_index) ==
    IF ~payload.ok THEN payload
    ELSE IF ~props.ok THEN props
    ELSE IF ~front_index.ok THEN front_index
    ELSE DotRecord(front_index.val, Len(text), props.val.x, props.val.y,
                   props.val.z, props.val.t, payload.val)

\* encode_chunk, from the digits on
encode_chunk_payload(text, digits) ==
    IF ~digits.ok THEN digits
    ELSE encode_chunk_record(text, _payload_from_indices(digits.val),
                             get_properties(chr(text[Len(text)])),
                             get_front_id(chr(text[1])))

\* encode_chunk, after validate_text(text, max_length=CHUNK_SIZE)
encode_chunk_validated(text, v) ==
    IF ~v.ok THEN v
    ELSE encode_chunk_payload(text, _digits_from_text(chr(text[1]), text))

encode_chunk(text) ==
    IF text = <<>> THEN Err("Chunk text must be non-empty")
    ELSE IF Len(text) > CHUNK_SIZE THEN Err("Chunk exceeds maximum size")
    ELSE encode_chunk_validated(text, validate_text(text, CHUNK_SIZE))

\* "".join(chars) over the entries the digits select
RECURSIVE JoinDigits(_, _, _, _)
JoinDigits(order_map, digits, i, chars) ==
    IF i > Len(digits) THEN Ok(chars)
    ELSE IF digits[i] >= Len(order_map) THEN Err("Decoded digit outside front order")
    ELSE JoinDigits(order_map, digits, i + 1, chars \o order_map[digits[i] + 1])

\* decode_chunk, once front_order and _indices_from_payload have returned
decode_chunk_join(order_map, digits) ==
    IF ~order_map.ok THEN order_map
    ELSE IF ~digits.ok THEN digits
    ELSE JoinDigits(order_map.val, digits.val, 1, <<>>)

\* variant: the text is accepted only when the record's x is the x of its
\* last character
decode_chunk_located_text(record, text) ==
    IF ~text.ok THEN text
    ELSE IF record.x.axis # "x"
            \/ record.x.index # CHAR_TO_INDEX(chr(text.val[Len(text.val)]))
    THEN Err("Coordinates do not match the text")
    ELSE text

decode_chunk_located(record) ==
    IF record.front_index >= ALPHABET_SIZE THEN Err("Invalid front_index")
    ELSE decode_chunk_located_text(
             record,
             decode_chunk_join(front_order(INDEX_TO_CHAR(record.front_index)),
                               _indices_from_payload(record.payload, record.length)))

decode_chunk(record) ==
    IF record.front_index >= ALPHABET_SIZE THEN Err("Invalid front_index")
    ELSE decode_chunk_join(front_order(INDEX_TO_CHAR(record.front_index)),
                           _indices_from_payload(record.payload, record.length))

(***************************************************************************)
(* optimizations/quaternion_optimizer.py                                   *)
(* compress_quaternion(angle_radius_to_quaternion(angle, radius, depth))   *)
(* is a floating-point function of the three spiral parameters; its six    *)
(* bytes are carried as opaque values tagged by the parameters' index.     *)
(***************************************************************************)
compress_quaternion(angle_rad, radius, depth) ==
    [k \in 1..6 |-> [quat_byte |-> k, angle_rad |-> angle_rad.index,
                     radius |-> radius.index, depth |-> depth.index]]

(***************************************************************************)
(* struct.pack / struct.unpack of one big-endian unsigned field            *)
(***************************************************************************)
RECURSIVE Pow256(_)
Pow256(n) == IF n = 0 THEN 1 ELSE 256 * Pow256(n - 1)

\* 256 ** 4 is beyond TLC's integers: every model value fits 4 bytes
FitsUnsigned(value, nbytes) ==
    value >= 0 /\ (nbytes >= 4 \/ value < Pow256(nbytes))

struct_pack(value, nbytes) ==
    IF ~FitsUnsigned(value, nbytes) THEN Err("struct.error")
    ELSE Ok(int_to_bytes(value, nbytes))

\* b"".join(parts) over packed fields: the first field that does not fit
\* raises, else the bytes
RECURSIVE JoinPacked(_, _, _)
JoinPacked(parts, i, joined) ==
    IF i > Len(parts) THEN Ok(joined)
    ELSE IF ~parts[i].ok THEN parts[i]
    ELSE JoinPacked(parts, i + 1, joined \o parts[i].val)

\* b'\x00' * n
ZeroBytes(n) == [k \in 1..n |-> 0]

\* Python slice data[lo:hi] with 0-based, clamped bounds
Slice(data, lo, hi) ==
    LET h == IF hi > Len(data) THEN Len(data) ELSE hi
    IN  IF lo >= h THEN <<>> ELSE SubSeq(data, lo + 1, h)

utf8_len(c) == IF c < 128 THEN 1 ELSE IF c < 2048 THEN 2 ELSE IF c < 65536 THEN 3 ELSE 4

RECURSIVE utf8_size(_)
utf8_size(text) ==
    IF text = <<>> THEN 0 ELSE utf8_len(Head(text)) + utf8_size(Tail(text))

(***************************************************************************)
(* optimizations/optimized_sjzip.py: OptimizedDotRecord                    *)
(***************************************************************************)
OptimizedDotRecord(front_index, length, hilbert_index, quaternion, compressed_payload) ==
    IF ~(0 <= front_index /\ front_index < Len(ALPHABET)) THEN Err("Invalid front_index")
    ELSE IF ~(1 <= length /\ length <= CHUNK_SIZE) THEN Err("Invalid length")
    ELSE IF Len(quaternion) # 6 THEN Err("Quaternion must be 6 bytes")
    ELSE Ok([front_index |-> front_index, length |-> length,
             hilbert_index |-> hilbert_index, quaternion |-> quaternion,
             compressed_payload |-> compressed_payload])

\* hilbert_index.to_bytes(3, 'big')
hilbert_to_bytes(hilbert_index) ==
    IF ~FitsUnsigned(hilbert_index, 3) THEN Err("OverflowError")
    ELSE Ok(int_to_bytes(hilbert_index, 3))

OptimizedDotRecord_to_bytes(record) ==
    IF Len(record.compressed_payload) > 10 * 1024 * 1024 THEN Err("Payload too large")
    ELSE JoinPacked(<<struct_pack(record.front_index, 1),
                      struct_pack(record.length, 2),
                      hilbert_to_bytes(record.hilbert_index),
                      Ok(record.quaternion),
                      struct_pack(Len(record.compressed_payload), 4),
                      Ok(record.compressed_payload)>>, 1, <<>>)

\* from_bytes, once the fields are read: the pair (record, offset)
OptimizedDotRecord_parsed(r, offset) ==
    IF ~r.ok THEN r ELSE Ok([record |-> r.val, offset |-> offset])

\* from_bytes, from the payload length on
OptimizedDotRecord_payload(data, front_index, length, hilbert_index, quaternion, payload_len) ==
    IF payload_len > 10 * 1024 * 1024 THEN Err("Payload too large")
    ELSE IF Len(data) < 16 + payload_len THEN Err("Truncated payload")
    ELSE OptimizedDotRecord_parsed(
             OptimizedDotRecord(front_index, length, hilbert_index, quaternion,
                                Slice(data, 16, 16 + payload_len)),
             16 + payload_len)

OptimizedDotRecord_from_bytes(data) ==
    IF Len(data) < 16 THEN Err("Insufficient data")
    ELSE OptimizedDotRecord_payload(data, data[1], int_from_bytes(Slice(data, 1, 3)),
                                    int_from_bytes(Slice(data, 3, 6)), Slice(data, 6, 12),
                                    int_from_bytes(Slice(data, 12, 16)))

(***************************************************************************)
(* optimizations/optimized_sjzip.py: OptimizedSJZIPCodec                   *)
(* self is the instance: its optimization_level and its stats.  A method   *)
(* returns [ret |-> what the call returns or raises, self |-> the instance *)
(* after the call].  elapsed is the difference of the two perf_counter()   *)
(* readings of the call.                                                   *)
(***************************************************************************)
MAX_TEXT_SIZE == MAX_FILE_SIZE

NewStats ==
    [original_size |-> 0, compressed_size |-> 0,
     compression_time |-> 0, decompression_time |-> 0]

OptimizedSJZIPCodec(optimization_level) ==
    IF ~(0 <= optimization_level /\ optimization_level <= 3)
    THEN Err("Optimization level must be 0-3")
    ELSE Ok([optimization_level |-> optimization_level, stats |-> NewStats])

\* a method ends, by return or by exception, with the instance as it is
Exit(self, r) == [ret |-> r, self |-> self]

\* variant: the record's index field carries the size the statistics held
\* when the call began
encode_chunk_optimized_return_counted(self, text, front_index, elapsed, base_payload, quaternion_bytes) ==
    [ret |-> OptimizedDotRecord(front_index, Len(text), self.stats.original_size,
                                quaternion_bytes, base_payload),
     self |-> [self EXCEPT !.stats = [@ EXCEPT !.compression_time = elapsed,
                                               !.original_size = utf8_size(text),
                                               !.compressed_size = 16 + Len(base_payload)]]]

\* encode_chunk_optimized: the stats are written, the record is built
encode_chunk_optimized_return(self, text, front_index, elapsed, base_payload, quaternion_bytes) ==
    [ret |-> OptimizedDotRecord(front_index, Len(text), 0, quaternion_bytes, base_payload),
     self |-> [self EXCEPT !.stats = [@ EXCEPT !.compression_time = elapsed,
                                               !.original_size = utf8_size(text),
                                               !.compressed_size = 16 + Len(base_payload)]]]

\* encode_chunk_optimized at level 3: the quaternion of the last character
encode_chunk_optimized_quaternion(self, text, front_index, elapsed, base_payload, props) ==
    IF ~props.ok THEN Exit(self, props)
    ELSE encode_chunk_optimized_return(
             self, text, front_index, elapsed, base_payload,
             compress_quaternion(props.val.angle_rad, props.val.radius, props.val.depth))

\* encode_chunk_optimized, from the payload on
encode_chunk_optimized_payload(self, text, front_index, elapsed, base_payload) ==
    IF ~base_payload.ok THEN Exit(self, base_payload)
    ELSE IF self.optimization_level >= 3
    THEN encode_chunk_optimized_quaternion(self, text, front_index, elapsed, base_payload.val,
                                           get_properties(chr(text[Len(text)])))
    ELSE encode_chunk_optimized_return(self, text, front_index, elapsed, base_payload.val,
                                       ZeroBytes(6))

\* encode_chunk_optimized, from the digits on
encode_chunk_optimized_digits(self, text, front_index, elapsed, digits) ==
    IF ~digits.ok THEN Exit(self, digits)
    ELSE encode_chunk_optimized_payload(self, text, front_index, elapsed,
                                        _payload_from_indices(digits.val))

\* encode_chunk_optimized at level 0: the base codec's record, wrapped
encode_chunk_optimized_base(self, record) ==
    IF ~record.ok THEN Exit(self, record)
    ELSE Exit(self, OptimizedDotRecord(record.val.front_index, record.val.length,
                                       0, ZeroBytes(6), record.val.payload))

\* variant: the default of the lookup is what every character gets
front_index_zero(front_char) == 0

\* front_index = CHAR_TO_INDEX.get(front_char, 0)
front_index_or_zero(front_char) ==
    IF front_char \in SUPPORTED_CHARS THEN CHAR_TO_INDEX(front_char) ELSE 0

\* encode_chunk_optimized, after validate_text(text, max_length=CHUNK_SIZE)
encode_chunk_optimized_validated(self, text, elapsed, v) ==
    IF ~v.ok THEN Exit(self, v)
    ELSE IF self.optimization_level = 0
    THEN encode_chunk_optimized_base(self, encode_chunk(text))
    ELSE encode_chunk_optimized_digits(self, text, front_index_or_zero(chr(text[1])), elapsed,
                                       _digits_from_text(chr(text[1]), text))

\* encode_chunk_optimized, after text = text[:CHUNK_SIZE]
encode_chunk_optimized_truncated(self, text, elapsed) ==
    encode_chunk_optimized_validated(self, text, elapsed, validate_text(text, CHUNK_SIZE))

encode_chunk_optimized(self, text, elapsed) ==
    IF text = <<>> THEN Exit(self, Err("Text cannot be empty"))
    ELSE IF Len(text) > CHUNK_SIZE
    THEN encode_chunk_optimized_truncated(self, Slice(text, 0, CHUNK_SIZE), elapsed)
    ELSE encode_chunk_optimized_truncated(self, text, elapsed)

\* variant: the last entry of the order counts as outside it
RECURSIVE JoinOrSentinel_short(_, _, _, _)
JoinOrSentinel_short(order_map, indices, i, chars) ==
    IF i > Len(indices) THEN chars
    ELSE IF indices[i] < Len(order_map) - 1
         THEN JoinOrSentinel_short(order_map, indices, i + 1,
                                   chars \o order_map[indices[i] + 1])
         ELSE JoinOrSentinel_short(order_map, indices, i + 1, chars \o chr(0))

\* the degrade-to-sentinel loop over the decoded indices
RECURSIVE JoinOrSentinel(_, _, _, _)
JoinOrSentinel(order_map, indices, i, chars) ==
    IF i > Len(indices) THEN chars
    ELSE IF indices[i] < Len(order_map)
         THEN JoinOrSentinel(order_map, indices, i + 1, chars \o order_map[indices[i] + 1])
         ELSE JoinOrSentinel(order_map, indices, i + 1, chars \o chr(0))

\* decode_chunk_optimized, once _indices_from_payload and front_order have returned
decode_chunk_optimized_join(self, elapsed, indices, order_map) ==
    IF ~indices.ok THEN Exit(self, indices)
    ELSE IF ~order_map.ok THEN Exit(self, order_map)
    ELSE [ret |-> Ok(JoinOrSentinel(order_map.val, indices.val, 1, <<>>)),
          self |-> [self EXCEPT !.stats.decompression_time = elapsed]]

decode_chunk_optimized(self, record, elapsed) ==
    IF record.front_index >= Len(ALPHABET) THEN Exit(self, Err("Invalid front_index"))
    ELSE decode_chunk_optimized_join(
             self, elapsed,
             _indices_from_payload(record.compressed_payload, record.length),
             front_order(ALPHABET[record.front_index + 1]))

\* for i in range(0, len(text), CHUNK_SIZE): encode the chunk, serialize it
RECURSIVE EncodeChunksLoop(_, _, _, _, _)

\* encoded_chunks.append(record.to_bytes())
EncodeChunksLoop_append(self, text, i, encoded_chunks, elapsed, chunk_data) ==
    IF ~chunk_data.ok THEN Exit(self, chunk_data)
    ELSE EncodeChunksLoop(self, text, i + CHUNK_SIZE,
                          Append(encoded_chunks, chunk_data.val), elapsed)

\* record = self.encode_chunk_optimized(chunk)
EncodeChunksLoop_record(text, i, encoded_chunks, elapsed, r) ==
    IF ~r.ret.ok THEN r
    ELSE EncodeChunksLoop_append(r.self, text, i, encoded_chunks, elapsed,
                                 OptimizedDotRecord_to_bytes(r.ret.val))

EncodeChunksLoop(self, text, i, encoded_chunks, elapsed) ==
    IF i >= Len(text) THEN Exit(self, Ok(encoded_chunks))
    ELSE EncodeChunksLoop_record(
             text, i, encoded_chunks, elapsed,
             encode_chunk_optimized(self, Slice(text, i, i + CHUNK_SIZE), elapsed))

RECURSIVE Concat(_)
Concat(parts) == IF parts = <<>> THEN <<>> ELSE Head(parts) \o Concat(Tail(parts))

SJZO == <<83, 74, 90, 79>>

\* variant: the header's length field adds what the instance's stats held
\* when the call began
encode_text_optimized_data_stateful(self, text, chunks) ==
    IF ~chunks.ret.ok THEN chunks
    ELSE Exit(chunks.self,
              JoinPacked(<<Ok(SJZO),
                           struct_pack(self.optimization_level, 1),
                           struct_pack(Len(text) + self.stats.compressed_size, 4),
                           struct_pack(Len(chunks.ret.val), 2),
                           Ok(Concat(chunks.ret.val))>>, 1, <<>>))

\* encode_text_optimized, once the chunks are encoded: header, count, chunks
encode_text_optimized_data(self, text, chunks) ==
    IF ~chunks.ret.ok THEN chunks
    ELSE Exit(chunks.self,
              JoinPacked(<<Ok(SJZO),
                           struct_pack(self.optimization_level, 1),
                           struct_pack(Len(text), 4),
                           struct_pack(Len(chunks.ret.val), 2),
                           Ok(Concat(chunks.ret.val))>>, 1, <<>>))

\* encode_text_optimized, after validate_text(text)
encode_text_optimized_validated(self, text, elapsed, v) ==
    IF ~v.ok THEN Exit(self, v)
    ELSE encode_text_optimized_data(self, text, EncodeChunksLoop(self, text, 0, <<>>, elapsed))

encode_text_optimized(self, text, elapsed) ==
    IF text = <<>> THEN Exit(self, Err("Text cannot be empty"))
    ELSE IF utf8_size(text) > MAX_TEXT_SIZE THEN Exit(self, Err("Text size exceeds maximum"))
    ELSE encode_text_optimized_validated(self, text, elapsed, validate_text(text, 1000000))

\* for _ in range(chunk_count): parse one record at offset, decode it
RECURSIVE DecodeChunksLoop(_, _, _, _, _, _)

\* variant: the offset stays on the first record
DecodeChunksLoop_text_stuck(data, offset, bytes_read, remaining, decoded_chunks, elapsed, r) ==
    IF ~r.ret.ok THEN r
    ELSE DecodeChunksLoop(r.self, data, offset, remaining - 1,
                          decoded_chunks \o r.ret.val, elapsed)

\* offset += bytes_read; decoded_chunks.append(chunk_text)
DecodeChunksLoop_text(data, offset, bytes_read, remaining, decoded_chunks, elapsed, r) ==
    IF ~r.ret.ok THEN r
    ELSE DecodeChunksLoop(r.self, data, offset + bytes_read, remaining - 1,
                          decoded_chunks \o r.ret.val, elapsed)

\* record, bytes_read = OptimizedDotRecord.from_bytes(data[offset:])
DecodeChunksLoop_record(self, data, offset, remaining, decoded_chunks, elapsed, parsed) ==
    IF ~parsed.ok THEN Exit(self, parsed)
    ELSE DecodeChunksLoop_text(data, offset, parsed.val.offset, remaining, decoded_chunks,
                               elapsed,
                               decode_chunk_optimized(self, parsed.val.record, elapsed))

DecodeChunksLoop(self, data, offset, remaining, decoded_chunks, elapsed) ==
    IF remaining = 0 THEN Exit(self, Ok(decoded_chunks))
    ELSE DecodeChunksLoop_record(self, data, offset, remaining, decoded_chunks, elapsed,
                                 OptimizedDotRecord_from_bytes(Slice(data, offset, Len(data))))

\* variant: the joined text is returned whatever the declared length
decode_text_optimized_result_whole(original_length, chunks) == chunks

\* decode_text_optimized, once the chunks are decoded: result[:original_length]
decode_text_optimized_result(original_length, chunks) ==
    IF ~chunks.ret.ok THEN chunks
    ELSE IF Len(chunks.ret.val) > original_length
    THEN Exit(chunks.self, Ok(Slice(chunks.ret.val, 0, original_length)))
    ELSE chunks

\* decode_text_optimized, once the header is read
decode_text_optimized_header(self, data, elapsed, original_length, chunk_count) ==
    IF original_length > MAX_TEXT_SIZE THEN Exit(self, Err("Original length too large"))
    ELSE IF chunk_count > 100000 THEN Exit(self, Err("Too many chunks"))
    ELSE decode_text_optimized_result(
             original_length, DecodeChunksLoop(self, data, 11, chunk_count, <<>>, elapsed))

decode_text_optimized(self, data, elapsed) ==
    IF Len(data) < 11 THEN Exit(self, Err("Data too short"))
    ELSE IF Slice(data, 0, 4) # SJZO THEN Exit(self, Err("Invalid SJZO file"))
    ELSE decode_text_optimized_header(self, data, elapsed,
                                      int_from_bytes(Slice(data, 5, 9)),
                                      int_from_bytes(Slice(data, 9, 11)))

(***************************************************************************)
(* codec.py: DotRecord.to_bytes and from_bytes.  struct.pack(">HHddddI",   *)
(* ...) followed by the payload.  The mapper's coordinates are not         *)
(* computed (cos, sin): the double of each has its own bit pattern, of a   *)
(* value inside [0, 1], told apart by its axis and its alphabet index.     *)
(***************************************************************************)
CoordinateAxes == <<"x", "y", "z", "t">>

AxisCode(axis) == CHOOSE k \in 1..4 : CoordinateAxes[k] = axis

\* struct.pack(">d", coord)
pack_double(coord) ==
    IF coord.axis = "bits" THEN coord.index
    ELSE <<63, AxisCode(coord.axis), coord.index, 0, 0, 0, 0, 0>>

\* struct.unpack(">d", b): the float with that bit pattern
unpack_double(b) ==
    IF b[1] = 63 /\ b[2] \in 1..4 /\ b[3] < ALPHABET_SIZE /\ \A k \in 4..8 : b[k] = 0
    THEN Coord(CoordinateAxes[b[2]], b[3])
    ELSE FloatBits(b)

DotRecord_to_bytes(record) ==
    IF Len(record.payload) > MAX_PAYLOAD_SIZE THEN Err("Payload too large for serialization")
    ELSE JoinPacked(<<struct_pack(record.front_index, 2),
                      struct_pack(record.length, 2),
                      Ok(pack_double(record.x)), Ok(pack_double(record.y)),
                      Ok(pack_double(record.z)), Ok(pack_double(record.t)),
                      struct_pack(Len(record.payload), 4),
                      Ok(record.payload)>>, 1, <<>>)

\* a big-endian unsigned field is greater than the field lim of the same
\* width, decided on the bytes: four bytes can be beyond TLC's integers
BytesGreater(field, lim) ==
    \E k \in 1..Len(field) :
        field[k] > lim[k] /\ \A j \in 1..(k - 1) : field[j] = lim[j]

\* from_bytes: the pair (record, rest), unless __post_init__ raised
DotRecord_from_bytes_record(r, rest) ==
    IF ~r.ok THEN r ELSE Ok([record |-> r.val, rest |-> rest])

\* from_bytes, once the header is unpacked and payload_len is within the
\* maximum
DotRecord_from_bytes_payload(data, front_index, length, x, y, z, t, payload_len) ==
    IF Len(data) < 40 + payload_len THEN Err("Insufficient data for payload")
    ELSE DotRecord_from_bytes_record(
             DotRecord(front_index, length, x, y, z, t, Slice(data, 40, 40 + payload_len)),
             Slice(data, 40 + payload_len, Len(data)))

\* variant: the header is unpacked as "<HHddddI" would unpack its integers
DotRecord_from_bytes_little(data) ==
    IF Len(data) < 40 THEN Err("Insufficient data for header")
    ELSE IF BytesGreater(Slice(data, 36, 40), int_to_bytes(MAX_PAYLOAD_SIZE, 4))
    THEN Err("Payload length exceeds maximum")
    ELSE DotRecord_from_bytes_payload(
             data, int_from_bytes_little(Slice(data, 0, 2)),
             int_from_bytes_little(Slice(data, 2, 4)),
             unpack_double(Slice(data, 4, 12)), unpack_double(Slice(data, 12, 20)),
             unpack_double(Slice(data, 20, 28)), unpack_double(Slice(data, 28, 36)),
             int_from_bytes(Slice(data, 36, 40)))

DotRecord_from_bytes(data) ==
    IF Len(data) < 40 THEN Err("Insufficient data for header")
    ELSE IF BytesGreater(Slice(data, 36, 40), int_to_bytes(MAX_PAYLOAD_SIZE, 4))
    THEN Err("Payload length exceeds maximum")
    ELSE DotRecord_from_bytes_payload(
             data, int_from_bytes(Slice(data, 0, 2)), int_from_bytes(Slice(data, 2, 4)),
             unpack_double(Slice(data, 4, 12)), unpack_double(Slice(data, 12, 20)),
             unpack_double(Slice(data, 20, 28)), unpack_double(Slice(data, 28, 36)),
             int_from_bytes(Slice(data, 36, 40)))

(***************************************************************************)
(* codec.py: encode_to_file, decode_from_file.  The file at the path is    *)
(* [some |-> FALSE] while it does not exist, else its kind and its bytes.  *)
(* encode_to_file returns [ret |-> ..., file |-> the file after the call]. *)
(***************************************************************************)
_HEADER_MAGIC == <<83, 74, 90, 49>>

FileOf(data) == [some |-> TRUE, kind |-> "file", val |-> data]

\* for start in range(0, len(text), CHUNK_SIZE): encode the chunk, write it
RECURSIVE WriteChunksLoop(_, _, _)

\* variant: the next chunk starts one character late
WriteChunksLoop_write_skip(text, start, fh, chunk_data) ==
    IF ~chunk_data.ok THEN [ret |-> chunk_data, file |-> FileOf(fh)]
    ELSE WriteChunksLoop(text, start + CHUNK_SIZE + 1, fh \o chunk_data.val)

\* fh.write(record.to_bytes())
WriteChunksLoop_write(text, start, fh, chunk_data) ==
    IF ~chunk_data.ok THEN [ret |-> chunk_data, file |-> FileOf(fh)]
    ELSE WriteChunksLoop(text, start + CHUNK_SIZE, fh \o chunk_data.val)

\* record = self.encode_chunk(chunk)
WriteChunksLoop_record(text, start, fh, record) ==
    IF ~record.ok THEN [ret |-> record, file |-> FileOf(fh)]
    ELSE WriteChunksLoop_write(text, start, fh, DotRecord_to_bytes(record.val))

WriteChunksLoop(text, start, fh) ==
    IF start >= Len(text) THEN [ret |-> Ok(None), file |-> FileOf(fh)]
    ELSE WriteChunksLoop_record(text, start, fh,
                                encode_chunk(Slice(text, start, start + CHUNK_SIZE)))

\* encode_to_file, after validate_text(text): open(path, "wb"), the magic,
\* the chunk size, the records
encode_to_file_validated(text, file, v) ==
    IF ~v.ok THEN [ret |-> v, file |-> file]
    ELSE WriteChunksLoop(text, 0, _HEADER_MAGIC \o struct_pack(CHUNK_SIZE, 2).val)

encode_to_file(text, file) ==
    IF utf8_size(text) > MAX_FILE_SIZE
    THEN [ret |-> Err("Text size exceeds maximum"), file |-> file]
    ELSE encode_to_file_validated(text, file, validate_text(text, 1000000))

\* while mv: parse one record, decode it, keep what is left
RECURSIVE ReadChunksLoop(_, _, _)

\* text_chunks.append(self.decode_chunk(record)); chunk_count += 1
ReadChunksLoop_text(rest, text_chunks, chunk_count, chunk) ==
    IF ~chunk.ok THEN chunk
    ELSE ReadChunksLoop(rest, text_chunks \o chunk.val, chunk_count + 1)

\* variant: a record that does not parse ends the loop with the text so far
ReadChunksLoop_record_partial(text_chunks, chunk_count, parsed) ==
    IF ~parsed.ok THEN Ok(text_chunks)
    ELSE ReadChunksLoop_text(parsed.val.rest, text_chunks, chunk_count,
                             decode_chunk(parsed.val.record))

\* record, mv = DotRecord.from_bytes(mv)
ReadChunksLoop_record(text_chunks, chunk_count, parsed) ==
    IF ~parsed.ok THEN parsed
    ELSE ReadChunksLoop_text(parsed.val.rest, text_chunks, chunk_count,
                             decode_chunk(parsed.val.record))

ReadChunksLoop(mv, text_chunks, chunk_count) ==
    IF mv = <<>> THEN Ok(text_chunks)
    ELSE IF chunk_count >= MAX_FILE_SIZE \div 10 THEN Err("Too many chunks")
    ELSE ReadChunksLoop_record(text_chunks, chunk_count, DotRecord_from_bytes(mv))

\* decode_from_file, once the file is read
decode_from_file_data(data) ==
    IF Len(data) < 4 \/ Slice(data, 0, 4) # _HEADER_MAGIC
    THEN Err("Invalid SJZIP file: bad magic header")
    ELSE IF Len(data) - 4 < 2 THEN Err("Invalid SJZIP file: truncated header")
    ELSE IF int_from_bytes(Slice(data, 4, 6)) # CHUNK_SIZE THEN Err("Unsupported chunk size")
    ELSE ReadChunksLoop(Slice(data, 6, Len(data)), <<>>, 0)

decode_from_file(file) ==
    IF ~file.some THEN Err("File not found")
    ELSE IF Len(file.val) > MAX_FILE_SIZE THEN Err("File size exceeds maximum")
    ELSE decode_from_file_data(file.val)

(***************************************************************************)
(* optimizations/hilbert_optimizer.py: HilbertCurve3D                      *)
(***************************************************************************)
MAX_ORDER == 10

HilbertCurve3D(order) ==
    IF ~(1 <= order /\ order <= MAX_ORDER) THEN Err("Order must be between 1 and MAX_ORDER")
    ELSE Ok([order |-> order, max_coord |-> 2 ^ order - 1, total_points |-> 2 ^ (3 * order)])

\* octant & bit, for bit in {1, 2, 4}
HasBit(octant, bit) == (octant \div bit) % 2 = 1

\* for level in range(self.order): the octant of the level moves x, y, z
RECURSIVE IndexTo3dLoop(_, _, _, _, _, _)

\* variant: bit 1 of the octant moves y and bit 2 moves x
IndexTo3dLoop_octant_swapped(self, index, level, x, y, z, n, octant) ==
    IndexTo3dLoop(self, index, level + 1,
                  IF HasBit(octant, 2) THEN x + n ELSE x,
                  IF HasBit(octant, 1) THEN y + n ELSE y,
                  IF HasBit(octant, 4) THEN z + n ELSE z)

\* if octant & 1: x += n; if octant & 2: y += n; if octant & 4: z += n
IndexTo3dLoop_octant(self, index, level, x, y, z, n, octant) ==
    IndexTo3dLoop(self, index, level + 1,
                  IF HasBit(octant, 1) THEN x + n ELSE x,
                  IF HasBit(octant, 2) THEN y + n ELSE y,
                  IF HasBit(octant, 4) THEN z + n ELSE z)

\* n = 2 ** (self.order - level - 1); octant = (index // (n * n * n)) % 8
IndexTo3dLoop_level(self, index, level, x, y, z, n) ==
    IndexTo3dLoop_octant(self, index, level, x, y, z, n, (index \div (n * n * n)) % 8)

IndexTo3dLoop(self, index, level, x, y, z) ==
    IF level >= self.order THEN <<x, y, z>>
    ELSE IndexTo3dLoop_level(self, index, level, x, y, z, 2 ^ (self.order - level - 1))

hilbert_index_to_3d(self, index) ==
    IF ~(0 <= index /\ index < self.total_points) THEN Err("Index out of range")
    ELSE Ok(IndexTo3dLoop(self, index, 0, 0, 0, 0))

\* for level in range(self.order): the octant of x, y, z adds to the index
RECURSIVE CoordsToIndexLoop(_, _, _, _, _, _)

\* octant |= 1, 2, 4 and x, y, z -= n where the coordinate reaches n;
\* index += octant * (n * n * n)
CoordsToIndexLoop_level(self, level, x, y, z, index, n) ==
    CoordsToIndexLoop(self, level + 1,
                      IF x >= n THEN x - n ELSE x,
                      IF y >= n THEN y - n ELSE y,
                      IF z >= n THEN z - n ELSE z,
                      index + ((IF x >= n THEN 1 ELSE 0) + (IF y >= n THEN 2 ELSE 0)
                                   + (IF z >= n THEN 4 ELSE 0)) * (n * n * n))

CoordsToIndexLoop(self, level, x, y, z, index) ==
    IF level >= self.order THEN index
    ELSE CoordsToIndexLoop_level(self, level, x, y, z, index, 2 ^ (self.order - level - 1))

coords_3d_to_hilbert_index(self, x, y, z) ==
    IF ~(\A c \in {x, y, z} : 0 <= c /\ c <= self.max_coord)
    THEN Err("Coordinates out of range")
    ELSE Ok(CoordsToIndexLoop(self, 0, x, y, z, 0))

\* compress_with_hilbert's scaling of a character's (x, y, z) to the grid
\* of the order-8 curve, int(coord * 255): the values of the mapper's
\* formula (0.5 + radius * cos(angle), 0.5 + radius * sin(angle),
\* 0.5 - depth, clipped to [0, 1]) for an alphabet of seven entries, one
\* triple per alphabet index
ScaledCoordinates ==
    <<<<130, 127, 127>>, <<139, 107, 85>>, <<105, 89, 42>>, <<62, 127, 0>>,
      <<84, 201, 0>>, <<180, 219, 0>>, <<255, 127, 0>>>>

(***************************************************************************)
(* optimizations/integer_scaler.py                                         *)
(* The packed word is a Python int of up to 60 bits, beyond TLC's          *)
(* integers: it is carried as the sequence of its bits, lowest first.  A   *)
(* float coordinate is a multiple of 1/2, carried as the number of halves  *)
(* (its products with the integer scale factors are exact); a restored     *)
(* float is the quotient num / den.  The ranges are the default (0.0, 1.0).*)
(***************************************************************************)
ScalingConfig(x_bits, y_bits, z_bits, t_bits) ==
    IF ~(\A b \in {x_bits, y_bits, z_bits, t_bits} : 1 <= b /\ b <= 32)
    THEN Err("Bit sizes must be between 1 and 32")
    ELSE Ok([x_bits |-> x_bits, y_bits |-> y_bits, z_bits |-> z_bits, t_bits |-> t_bits])

\* __init__ and _compute_scale_factors: x_scale = x_max / (1.0 - 0.0)
IntegerCoordinateScaler(config) ==
    [config |-> config,
     x_max |-> 2 ^ config.x_bits - 1, y_max |-> 2 ^ config.y_bits - 1,
     z_max |-> 2 ^ config.z_bits - 1, t_max |-> 2 ^ config.t_bits - 1]

\* np.clip(coord, 0.0, 1.0), in halves
clip_unit(halves) == IF halves < 0 THEN 0 ELSE IF halves > 2 THEN 2 ELSE halves

\* min(int((np.clip(coord, 0.0, 1.0) - 0.0) * scale), max)
scale_one(halves, max) ==
    IF (clip_unit(halves) * max) \div 2 < max THEN (clip_unit(halves) * max) \div 2 ELSE max

scale_to_integer(self, coords) ==
    IF Len(coords) # 4 THEN Err("Coordinates must be numpy array of shape (4,)")
    ELSE Ok(<<scale_one(coords[1], self.x_max), scale_one(coords[2], self.y_max),
              scale_one(coords[3], self.z_max), scale_one(coords[4], self.t_max)>>)

\* x_int / self.x_scale + 0.0
scale_from_integer(self, ints) ==
    <<[num |-> ints[1], den |-> self.x_max], [num |-> ints[2], den |-> self.y_max],
      [num |-> ints[3], den |-> self.z_max], [num |-> ints[4], den |-> self.t_max]>>

\* the bits of a non-negative int, lowest first
RECURSIVE BitsOf(_)
BitsOf(value) == IF value = 0 THEN <<>> ELSE <<value % 2>> \o BitsOf(value \div 2)

RECURSIVE ValueOfBits(_)
ValueOfBits(bits) == IF bits = <<>> THEN 0 ELSE Head(bits) + 2 * ValueOfBits(Tail(bits))

\* word & mask, for a mask of `width` low bits
LowBits(bits, width) == SubSeq(bits, 1, IF width < Len(bits) THEN width ELSE Len(bits))

\* word << k
ShiftLeft(bits, k) == [i \in 1..k |-> 0] \o bits

\* word >> k
ShiftRight(bits, k) == SubSeq(bits, k + 1, Len(bits))

BitAt(bits, i) == IF i <= Len(bits) THEN bits[i] ELSE 0

\* a | b
BitOr(a, b) ==
    [i \in 1..(IF Len(a) > Len(b) THEN Len(a) ELSE Len(b)) |->
        IF BitAt(a, i) = 1 \/ BitAt(b, i) = 1 THEN 1 ELSE 0]

\* packed.to_bytes(8, byteorder='big')
word_to_bytes(bits) ==
    IF \E i \in 65..Len(bits) : bits[i] = 1 THEN Err("OverflowError")
    ELSE Ok([j \in 1..8 |->
                ValueOfBits([i \in 1..8 |-> BitAt(bits, 8 * (8 - j) + i)])])

\* int.from_bytes(packed, byteorder='big')
word_from_bytes(packed) ==
    [i \in 1..64 |-> BitAt(BitsOf(packed[8 - ((i - 1) \div 8)]), ((i - 1) % 8) + 1)]

\* pack_coordinates, once scale_to_integer has returned
pack_coordinates_word(ints) ==
    IF ~ints.ok THEN ints
    ELSE word_to_bytes(
             BitOr(BitOr(BitOr(ShiftLeft(LowBits(BitsOf(ints.val[1]), 16), 44),
                               ShiftLeft(LowBits(BitsOf(ints.val[2]), 16), 28)),
                         ShiftLeft(LowBits(BitsOf(ints.val[3]), 16), 12)),
                   LowBits(BitsOf(ints.val[4]), 12)))

pack_coordinates(self, coords) == pack_coordinates_word(scale_to_integer(self, coords))

\* the shift-and-mask step of unpack_coordinates
unpack_integers(word) ==
    <<ValueOfBits(LowBits(ShiftRight(word, 44), 16)),
      ValueOfBits(LowBits(ShiftRight(word, 28), 16)),
      ValueOfBits(LowBits(ShiftRight(word, 12), 16)),
      ValueOfBits(LowBits(word, 12))>>

unpack_coordinates(self, packed) ==
    IF Len(packed) # 8 THEN Err("Expected 8 bytes")
    ELSE Ok(scale_from_integer(self, unpack_integers(word_from_bytes(packed))))

(***************************************************************************)
(* dot.py: DotPacket, SingleDot and their dictionaries                     *)
(* A dictionary is a function from the keys it holds to their values.  An  *)
(* exception of the model is a ValueError unless KeyError built it.        *)
(***************************************************************************)
\* a subscript of a dict with a key it does not hold
KeyError(key) == [ok |-> FALSE, err |-> "KeyError", key |-> key]

IsValueError(r) == ~r.ok /\ r.err # "KeyError"

\* the doubles 0.5 and 0.0, the defaults of the coordinates
FloatHalf == FloatBits(<<63, 224, 0, 0, 0, 0, 0, 0>>)

FloatZero == FloatBits(<<0, 0, 0, 0, 0, 0, 0, 0>>)

\* the value of a hexadecimal digit, -1 for any other character
HexValue(c) ==
    IF 48 <= c /\ c <= 57 THEN c - 48
    ELSE IF 97 <= c /\ c <= 102 THEN c - 87
    ELSE IF 65 <= c /\ c <= 70 THEN c - 55
    ELSE -1

\* bytes.fromhex(string): ASCII whitespace is skipped between bytes, every
\* byte is two hexadecimal digits
RECURSIVE fromhex(_, _, _)
fromhex(string, i, acc) ==
    IF i > Len(string) THEN Ok(acc)
    ELSE IF string[i] \in {9, 10, 11, 12, 13, 32} THEN fromhex(string, i + 1, acc)
    ELSE IF i + 1 > Len(string) \/ HexValue(string[i]) < 0 \/ HexValue(string[i + 1]) < 0
    THEN Err("non-hexadecimal number found in fromhex() arg")
    ELSE fromhex(string, i + 2,
                 Append(acc, 16 * HexValue(string[i]) + HexValue(string[i + 1])))

\* DotPacket(...) with its __post_init__ validation
DotPacket(front_char, front_index, length, x, y, z, t, payload) ==
    IF ~ensure_supported(front_char).ok THEN ensure_supported(front_char)
    ELSE IF ~(0 <= length /\ length <= CHUNK_SIZE) THEN Err("Invalid length")
    ELSE IF ~(\A c \in {x, y, z, t} : InUnitRange(c)) THEN Err("Coordinates must be in [0, 1] range")
    ELSE Ok([front_char |-> front_char, front_index |-> front_index, length |-> length,
             x |-> x, y |-> y, z |-> z, t |-> t, payload |-> payload])

\* SingleDot(...) with its __post_init__ validation
SingleDot(front_char, front_index, length, x, y, z, t, payload) ==
    IF ~ensure_supported(front_char).ok THEN ensure_supported(front_char)
    ELSE IF length <= 0 THEN Err("Invalid length")
    ELSE IF ~(\A c \in {x, y, z, t} : InUnitRange(c)) THEN Err("Coordinates must be in [0, 1] range")
    ELSE Ok([front_char |-> front_char, front_index |-> front_index, length |-> length,
             x |-> x, y |-> y, z |-> z, t |-> t, payload |-> payload])

\* {}
EmptyDict == [key \in {} |-> None]

\* mapping.get(key, default)
dict_get(mapping, key, default) == IF key \in DOMAIN mapping THEN mapping[key] ELSE default

\* if front_index >= len(INDEX_TO_CHAR): raise ValueError
\* front_char = data.get("front_char", INDEX_TO_CHAR[front_index]): the
\* default is evaluated whether or not the key is there, and INDEX_TO_CHAR
\* is a dict of the keys 0..N-1
from_dict_front_char(data, front_index) ==
    IF front_index >= ALPHABET_SIZE THEN Err("Invalid front_index")
    ELSE IF ~(0 <= front_index /\ front_index < ALPHABET_SIZE) THEN KeyError(front_index)
    ELSE Ok(dict_get(data, "front_char", INDEX_TO_CHAR(front_index)))

\* from_dict, once front_char and the payload are there: the constructor
DotPacket_from_dict_build(data, coords, front_char, payload) ==
    IF ~front_char.ok THEN front_char
    ELSE IF ~payload.ok THEN Err("Invalid hex payload")
    ELSE DotPacket(front_char.val, data.front_index, data.length,
                   dict_get(coords, "x", FloatHalf), dict_get(coords, "y", FloatHalf),
                   dict_get(coords, "z", FloatHalf), dict_get(coords, "t", FloatZero),
                   payload.val)

DotPacket_from_dict(data) ==
    IF {"front_index", "length", "payload_hex"} \ DOMAIN data # {}
    THEN Err("Missing required fields")
    ELSE DotPacket_from_dict_build(data, dict_get(data, "coordinates", EmptyDict),
                                   from_dict_front_char(data, data.front_index),
                                   fromhex(data.payload_hex, 1, <<>>))

SingleDot_from_dict_build(data, coords, front_char, payload) ==
    IF ~front_char.ok THEN front_char
    ELSE IF ~payload.ok THEN Err("Invalid hex payload")
    ELSE SingleDot(front_char.val, data.front_index, data.length,
                   dict_get(coords, "x", FloatHalf), dict_get(coords, "y", FloatHalf),
                   dict_get(coords, "z", FloatHalf), dict_get(coords, "t", FloatZero),
                   payload.val)

SingleDot_from_dict(data) ==
    IF {"front_index", "length", "payload_hex"} \ DOMAIN data # {}
    THEN Err("Missing required fields")
    ELSE SingleDot_from_dict_build(data, dict_get(data, "coordinates", EmptyDict),
                                   from_dict_front_char(data, data.front_index),
                                   fromhex(data.payload_hex, 1, <<>>))

(***************************************************************************)
(* dot.py: DotCodec, over the base codec of codec.py                       *)
(***************************************************************************)
\* for packet in packets: length check, DotRecord, decode_chunk
RECURSIVE DotsToTextLoop(_, _, _)

\* text_chunks.append(self._codec.decode_chunk(record))
DotsToTextLoop_text(packets, i, text_chunks, chunk) ==
    IF ~chunk.ok THEN chunk
    ELSE DotsToTextLoop(packets, i + 1, text_chunks \o chunk.val)

\* record = DotRecord(...packet's fields...)
DotsToTextLoop_record(packets, i, text_chunks, record) ==
    IF ~record.ok THEN record
    ELSE DotsToTextLoop_text(packets, i, text_chunks, decode_chunk(record.val))

DotsToTextLoop(packets, i, text_chunks) ==
    IF i > Len(packets) THEN Ok(text_chunks)
    ELSE IF packets[i].length > CHUNK_SIZE THEN Err("DOT packet length exceeds chunk size")
    ELSE DotsToTextLoop_record(packets, i, text_chunks,
                               DotRecord(packets[i].front_index, packets[i].length,
                                         packets[i].x, packets[i].y, packets[i].z,
                                         packets[i].t, packets[i].payload))

dots_to_text(packets) ==
    IF packets = <<>> THEN Ok(<<>>)
    ELSE DotsToTextLoop(packets, 1, <<>>)

\* text_to_single_dot, from the payload on
text_to_single_dot_build(text, payload, front_index, props) ==
    IF ~payload.ok THEN payload
    ELSE IF ~front_index.ok THEN front_index
    ELSE IF ~props.ok THEN props
    ELSE SingleDot(chr(text[1]), front_index.val, Len(text), props.val.x, props.val.y,
                   props.val.z, props.val.t, payload.val)

\* text_to_single_dot, from the digits on
text_to_single_dot_digits(text, digits) ==
    IF ~digits.ok THEN digits
    ELSE text_to_single_dot_build(text, _payload_from_indices(digits.val),
                                  get_front_id(chr(text[1])),
                                  get_properties(chr(text[Len(text)])))

text_to_single_dot(text) ==
    IF text = <<>> THEN Err("Text must be non-empty to encode into a single DOT")
    ELSE IF ~validate_text(text, 1000000).ok THEN validate_text(text, 1000000)
    ELSE text_to_single_dot_digits(text, _digits_from_text(chr(text[1]), text))

\* the loop of single_dot_to_text over the digits
RECURSIVE SingleDotJoin(_, _, _, _)
SingleDotJoin(order_map, digits, i, chars) ==
    IF i > Len(digits) THEN Ok(chars)
    ELSE IF digits[i] >= Len(order_map) THEN Err("DOT payload decoded to unsupported digit")
    ELSE SingleDotJoin(order_map, digits, i + 1, chars \o order_map[digits[i] + 1])

\* single_dot_to_text, once _indices_from_payload and front_order have returned
single_dot_to_text_join(digits, order_map) ==
    IF ~digits.ok THEN digits
    ELSE IF ~order_map.ok THEN order_map
    ELSE SingleDotJoin(order_map.val, digits.val, 1, <<>>)

single_dot_to_text(dot) ==
    single_dot_to_text_join(_indices_from_payload(dot.payload, dot.length),
                            front_order(dot.front_char))

(***************************************************************************)
(* optimized_sjzip.py on texts too long to write out.  A run is `count`    *)
(* copies of one character; encode_text_optimized is followed on it down   *)
(* to the header and the first fields of the first record, with the chunk  *)
(* size of the source: the limits of validate_text, of the text size and   *)
(* of the packed fields are numbers that do not scale with the model.      *)
(***************************************************************************)
SOURCE_CHUNK_SIZE == 500

RunText(char, count) == [char |-> char, count |-> count]

\* variant: the length of the text is not looked at
validate_run_unlimited(run, max_length) ==
    IF run.count > 0 /\ chr(run.char) \notin SUPPORTED_CHARS
    THEN ErrAt("Unsupported character at position", 0)
    ELSE Ok(None)

\* validate_text on a run: the length, then the first character
validate_run(run, max_length) ==
    IF run.count > max_length THEN Err("Text exceeds maximum length")
    ELSE IF run.count > 0 /\ chr(run.char) \notin SUPPORTED_CHARS
    THEN ErrAt("Unsupported character at position", 0)
    ELSE Ok(None)

\* len(range(0, stop, step))
range_len(stop, step) == (stop + step - 1) \div step

\* the length of the last chunk of a text of `count` characters
last_chunk_len(count) == count - SOURCE_CHUNK_SIZE * (range_len(count, SOURCE_CHUNK_SIZE) - 1)

\* the instance after the chunks of a run are encoded: at levels 1..3 the
\* statistics are those of the last chunk, whose digits are all 0 and whose
\* payload is the one byte 0
encode_run_optimized_stats(self, run, elapsed) ==
    IF self.optimization_level = 0 THEN self
    ELSE [self EXCEPT !.stats = [@ EXCEPT !.compression_time = elapsed,
                                          !.original_size =
                                              last_chunk_len(run.count) * utf8_len(run.char),
                                          !.compressed_size = 16 + 1]]

\* encode_text_optimized on a run, after validate_text(text): the header,
\* the chunk count, and front_index and length of the first record
encode_run_optimized_validated(self, run, elapsed, v) ==
    IF ~v.ok THEN Exit(self, v)
    ELSE Exit(encode_run_optimized_stats(self, run, elapsed),
              JoinPacked(<<Ok(SJZO),
                           struct_pack(self.optimization_level, 1),
                           struct_pack(run.count, 4),
                           struct_pack(range_len(run.count, SOURCE_CHUNK_SIZE), 2),
                           struct_pack(front_index_or_zero(chr(run.char)), 1),
                           struct_pack(IF run.count > SOURCE_CHUNK_SIZE
                                       THEN SOURCE_CHUNK_SIZE ELSE run.count, 2)>>,
                         1, <<>>))

encode_run_optimized(self, run, elapsed) ==
    IF run.count = 0 THEN Exit(self, Err("Text cannot be empty"))
    ELSE IF run.count * utf8_len(run.char) > MAX_TEXT_SIZE
    THEN Exit(self, Err("Text size exceeds maximum"))
    ELSE encode_run_optimized_validated(self, run, elapsed, validate_run(run, 1000000))

(***************************************************************************)
(* The state machine: a client holds one input, one codec instance and the *)
(* last object it obtained from it, and makes calls.                       *)
(***************************************************************************)
VARIABLES
    argText,    \* the input text of the session
    argFront,   \* first string argument of the front_space calls
    argChar,    \* second string argument of the front_space calls
    inst,       \* the OptimizedSJZIPCodec instance: optimization_level, stats
    held,       \* the object in hand: Nothing, or its kind and value
    tampered,   \* TRUE once the payload of the record in hand was replaced
    call,       \* the last call: its name, its arguments, what it returned
    first       \* the first serialized output of each encoder in this session

vars == <<argText, argFront, argChar, inst, held, tampered, call, first>>

Nothing == [some |-> FALSE]

Holding(kind, v) == [some |-> TRUE, kind |-> kind, val |-> v]

Holds(kind) == held.some /\ held.kind = kind

\* inputs
CodePoints == {1} \cup {c[1] : c \in {e \in SUPPORTED_CHARS : Len(e) = 1}}

LongChars == {44, 54616}

MaxLongLen == 2 * CHUNK_SIZE + 1

TextsOver(chars, maxLen) == UNION {[1..n -> chars] : n \in 0..maxLen}

\* one character followed by a run of another
RunTexts(chars, maxLen) ==
    {<<f>> \o [k \in 1..n |-> c] : f \in chars, c \in chars, n \in 0..(maxLen - 1)}

TextInputs == TextsOver(CodePoints, MaxShortLen) \cup TextsOver(LongChars, MaxLongLen)

\* the short texts, and the runs of a full chunk and of one character more
TamperInputs ==
    TextsOver(CodePoints, MaxShortLen)
        \cup {t \in RunTexts(LongChars, CHUNK_SIZE + 1) : Len(t) >= CHUNK_SIZE}

\* every text of a full chunk followed by a chunk of one or two characters
TwoChunkTexts == UNION {[1..n -> LongChars] : n \in (CHUNK_SIZE + 1)..(CHUNK_SIZE + 2)}

\* the optimized codec adds an instance state to every input: the short
\* texts, the two-chunk texts, and runs of up to three chunks
OptInputs ==
    TextsOver(CodePoints, MaxShortLen) \cup TwoChunkTexts \cup RunTexts(LongChars, MaxLongLen)

Strings == SUPPORTED_CHARS \cup {chr(1), <<65, 65>>, <<>>}

Levels == 0..3

Durations == 1..MaxElapsed

Bytes == 0..255

NoCall == [op |-> "none"]

NoFirst == [encode_chunk |-> Nothing, encode_text_optimized |-> Nothing]

InitCommon ==
    /\ held = Nothing
    /\ tampered = FALSE
    /\ call = NoCall
    /\ first = NoFirst

\* the base codec: a default-constructed instance, any input text
Init ==
    /\ argText \in TextInputs
    /\ argFront = <<>>
    /\ argChar = <<>>
    /\ inst = OptimizedSJZIPCodec(3).val
    /\ InitCommon

(***************************************************************************)
(* Calls on the base codec                                                 *)
(***************************************************************************)
\* the serialized output of an encoder is kept the first time it returns one
Remember(memo, b) == IF memo.some \/ ~b.ok THEN memo ELSE [some |-> TRUE, val |-> b.val]

EncodeChunk ==
    /\ call' = [op |-> "encode_chunk", ret |-> encode_chunk(argText)]
    /\ held' = IF call'.ret.ok THEN Holding("DotRecord", call'.ret.val) ELSE Nothing
    /\ tampered' = FALSE
    /\ first' = [first EXCEPT !.encode_chunk =
                    Remember(@, IF call'.ret.ok THEN DotRecord_to_bytes(call'.ret.val)
                                ELSE call'.ret)]
    /\ UNCHANGED <<argText, argFront, argChar, inst>>

DecodeChunk ==
    /\ Holds("DotRecord")
    /\ call' = [op |-> "decode_chunk", ret |-> decode_chunk(held.val)]
    /\ UNCHANGED <<argText, argFront, argChar, inst, held, tampered, first>>

Next == EncodeChunk \/ DecodeChunk

Spec == Init /\ [][Next]_vars

(***************************************************************************)
(* The base codec with a corrupting environment                            *)
(***************************************************************************)
InitTamper ==
    /\ argText \in TamperInputs
    /\ argFront = <<>>
    /\ argChar = <<>>
    /\ inst = OptimizedSJZIPCodec(3).val
    /\ InitCommon

\* the environment replaces the payload of the record in hand by another
\* byte string of the same length
TamperPayload ==
    /\ Holds("DotRecord")
    /\ ~tampered
    /\ \E payload \in [1..Len(held.val.payload) -> Bytes] \ {held.val.payload} :
          held' = [held EXCEPT !.val.payload = payload]
    /\ tampered' = TRUE
    /\ call' = [op |-> "tamper"]
    /\ UNCHANGED <<argText, argFront, argChar, inst, first>>

NextTamper == EncodeChunk \/ DecodeChunk \/ TamperPayload

SpecTamper == InitTamper /\ [][NextTamper]_vars

(***************************************************************************)
(* alphabet.py: the validation calls on any string                         *)
(***************************************************************************)
EnsureSupported ==
    /\ call' = [op |-> "ensure_supported", ret |-> ensure_supported(argText)]
    /\ UNCHANGED <<argText, argFront, argChar, inst, held, tampered, first>>

ValidateText ==
    /\ \E max_length \in 0..MaxLongLen :
          call' = [op |-> "validate_text", max_length |-> max_length,
                   ret |-> validate_text(argText, max_length)]
    /\ UNCHANGED <<argText, argFront, argChar, inst, held, tampered, first>>

NextAlphabet == EnsureSupported \/ ValidateText

SpecAlphabet == Init /\ [][NextAlphabet]_vars

(***************************************************************************)
(* front_space.py: the lookups on any two strings                          *)
(***************************************************************************)
InitFront ==
    /\ argText = <<>>
    /\ argFront \in Strings
    /\ argChar \in Strings
    /\ inst = OptimizedSJZIPCodec(3).val
    /\ InitCommon

FrontOrder ==
    /\ call' = [op |-> "front_order", ret |-> front_order(argFront)]
    /\ UNCHANGED <<argText, argFront, argChar, inst, held, tampered, first>>

FrontPosition ==
    /\ call' = [op |-> "front_position", ret |-> front_position(argFront, argChar)]
    /\ UNCHANGED <<argText, argFront, argChar, inst, held, tampered, first>>

NextFront == FrontOrder \/ FrontPosition

SpecFront == InitFront /\ [][NextFront]_vars

(***************************************************************************)
(* The optimized codec: an instance of any level, its calls, and the base  *)
(* codec it wraps                                                          *)
(***************************************************************************)
InitOpt ==
    /\ argText \in OptInputs
    /\ argFront = <<>>
    /\ argChar = <<>>
    /\ \E optimization_level \in Levels :
          inst = OptimizedSJZIPCodec(optimization_level).val
    /\ InitCommon

\* a second instance of the same level replaces the first
NewCodec ==
    /\ inst' = OptimizedSJZIPCodec(inst.optimization_level).val
    /\ call' = [op |-> "OptimizedSJZIPCodec"]
    /\ UNCHANGED <<argText, argFront, argChar, held, tampered, first>>

\* a method of the instance ends: what it returned or raised, and the instance
Returns(op, r) ==
    /\ call' = [op |-> op, ret |-> r.ret]
    /\ inst' = r.self

EncodeChunkOptimized ==
    /\ \E elapsed \in Durations :
          Returns("encode_chunk_optimized", encode_chunk_optimized(inst, argText, elapsed))
    /\ held' = IF call'.ret.ok THEN Holding("OptimizedDotRecord", call'.ret.val) ELSE Nothing
    /\ tampered' = FALSE
    /\ UNCHANGED <<argText, argFront, argChar, first>>

DecodeChunkOptimized ==
    /\ Holds("OptimizedDotRecord")
    /\ \E elapsed \in Durations :
          Returns("decode_chunk_optimized", decode_chunk_optimized(inst, held.val, elapsed))
    /\ UNCHANGED <<argText, argFront, argChar, held, tampered, first>>

EncodeTextOptimized ==
    /\ \E elapsed \in Durations :
          Returns("encode_text_optimized", encode_text_optimized(inst, argText, elapsed))
    /\ held' = IF call'.ret.ok THEN Holding("bytes", call'.ret.val) ELSE Nothing
    /\ tampered' = FALSE
    /\ first' = [first EXCEPT !.encode_text_optimized = Remember(@, call'.ret)]
    /\ UNCHANGED <<argText, argFront, argChar>>

DecodeTextOptimized ==
    /\ Holds("bytes")
    /\ \E elapsed \in Durations :
          Returns("decode_text_optimized", decode_text_optimized(inst, held.val, elapsed))
    /\ UNCHANGED <<argText, argFront, argChar, held, tampered, first>>

NextOpt ==
    \/ NewCodec
    \/ EncodeChunk
    \/ EncodeChunkOptimized
    \/ DecodeChunkOptimized
    \/ EncodeTextOptimized
    \/ DecodeTextOptimized

SpecOpt == InitOpt /\ [][NextOpt]_vars

(***************************************************************************)
(* codec.py: DotRecord on its own.  A client builds a record, from a text  *)
(* or from fields of its choice, serializes it, appends bytes, and parses  *)
(* the result.                                                             *)
(***************************************************************************)
InitRecord ==
    /\ argText \in TextsOver(CodePoints, MaxShortLen) \cup RunTexts(LongChars, CHUNK_SIZE)
    /\ argFront = <<>>
    /\ argChar = <<>>
    /\ inst = OptimizedSJZIPCodec(3).val
    /\ InitCommon

\* floats a client can hand to DotRecord: 0.0, 1.0, -1.0, and a coordinate
\* of the mapper
FloatInputs ==
    {FloatBits(<<0, 0, 0, 0, 0, 0, 0, 0>>), FloatBits(<<63, 240, 0, 0, 0, 0, 0, 0>>),
     FloatBits(<<191, 240, 0, 0, 0, 0, 0, 0>>), Coord("x", 1)}

PayloadInputs == {<<>>, <<0>>, <<255, 1>>}

NewDotRecord ==
    /\ \E front_index \in {ALPHABET_SIZE - 1, ALPHABET_SIZE},
          length \in {CHUNK_SIZE, CHUNK_SIZE + 1},
          x \in FloatInputs, payload \in PayloadInputs :
          call' = [op |-> "DotRecord",
                   ret |-> DotRecord(front_index, length, x, Coord("y", 0), Coord("z", 0),
                                     FloatBits(<<0, 0, 0, 0, 0, 0, 0, 0>>), payload)]
    /\ held' = IF call'.ret.ok THEN Holding("DotRecord", call'.ret.val) ELSE Nothing
    /\ tampered' = FALSE
    /\ UNCHANGED <<argText, argFront, argChar, inst, first>>

\* what a client appends to the serialized record: nothing, bytes, or the
\* serialized record again
Suffixes(data) == {<<>>, <<0>>, <<255, 1>>, data}

\* record.to_bytes() + s, kept in hand
ToBytes ==
    /\ Holds("DotRecord")
    /\ call' = [op |-> "to_bytes", record |-> held.val, ret |-> DotRecord_to_bytes(held.val)]
    /\ IF call'.ret.ok
       THEN \E s \in Suffixes(call'.ret.val) :
               held' = Holding("bytes", [data |-> call'.ret.val, rest |-> s])
       ELSE held' = Nothing
    /\ UNCHANGED <<argText, argFront, argChar, inst, tampered, first>>

\* DotRecord.from_bytes(data) on the bytes in hand
FromBytes ==
    /\ Holds("bytes")
    /\ call.op \in {"to_bytes", "from_bytes"}
    /\ call' = [op |-> "from_bytes", record |-> call.record,
                ret |-> DotRecord_from_bytes(held.val.data \o held.val.rest)]
    /\ UNCHANGED <<argText, argFront, argChar, inst, held, tampered, first>>

NextRecord == EncodeChunk \/ NewDotRecord \/ ToBytes \/ FromBytes

SpecRecord == InitRecord /\ [][NextRecord]_vars

(***************************************************************************)
(* codec.py: the file codec.  One path; the file at it is what is in hand. *)
(* Between the calls the environment may damage the file once: cut it      *)
(* short, overwrite one byte, or append one.                               *)
(***************************************************************************)
InitFile ==
    /\ argText \in OptInputs
    /\ argFront = <<>>
    /\ argChar = <<>>
    /\ inst = OptimizedSJZIPCodec(3).val
    /\ InitCommon

\* a call that may write the file ends: what it returned or raised, the file
Writes(op, r) ==
    /\ call' = [op |-> op, ret |-> r.ret]
    /\ held' = r.file

EncodeToFile ==
    /\ Writes("encode_to_file", encode_to_file(argText, held))
    /\ tampered' = IF call'.ret.ok THEN FALSE ELSE tampered
    /\ UNCHANGED <<argText, argFront, argChar, inst, first>>

DecodeFromFile ==
    /\ call' = [op |-> "decode_from_file", ret |-> decode_from_file(held)]
    /\ UNCHANGED <<argText, argFront, argChar, inst, held, tampered, first>>

CorruptBytes == {0, 1, 255}

TruncateFile ==
    /\ Holds("file")
    /\ ~tampered
    /\ \E n \in 0..(Len(held.val) - 1) : held' = FileOf(SubSeq(held.val, 1, n))
    /\ tampered' = TRUE
    /\ call' = [op |-> "truncate"]
    /\ UNCHANGED <<argText, argFront, argChar, inst, first>>

OverwriteByte ==
    /\ Holds("file")
    /\ ~tampered
    /\ \E pos \in 1..Len(held.val), b \in CorruptBytes :
          /\ held.val[pos] # b
          /\ held' = [held EXCEPT !.val[pos] = b]
    /\ tampered' = TRUE
    /\ call' = [op |-> "overwrite"]
    /\ UNCHANGED <<argText, argFront, argChar, inst, first>>

AppendByte ==
    /\ Holds("file")
    /\ ~tampered
    /\ \E b \in CorruptBytes : held' = FileOf(Append(held.val, b))
    /\ tampered' = TRUE
    /\ call' = [op |-> "append"]
    /\ UNCHANGED <<argText, argFront, argChar, inst, first>>

NextFile ==
    \/ EncodeToFile
    \/ DecodeFromFile
    \/ TruncateFile
    \/ OverwriteByte
    \/ AppendByte

SpecFile == InitFile /\ [][NextFile]_vars

(***************************************************************************)
(* The optimized codec on streams it did not write: the header of an       *)
(* encoded stream is rewritten, or a bare header is handed in.             *)
(***************************************************************************)
\* the stream with its original_length and chunk_count fields replaced
WithHeader(data, original_length, chunk_count) ==
    SubSeq(data, 1, 5) \o int_to_bytes(original_length, 4) \o int_to_bytes(chunk_count, 2)
        \o SubSeq(data, 12, Len(data))

DeclaredLengths == {0, 1, CHUNK_SIZE, CHUNK_SIZE + 1, MaxLongLen + 1}

DeclaredCounts == {0, 1, 2, 3, 65535}

ForgeHeader ==
    /\ Holds("bytes")
    /\ ~tampered
    /\ \E original_length \in DeclaredLengths, chunk_count \in DeclaredCounts :
          held' = Holding("bytes", WithHeader(held.val, original_length, chunk_count))
    /\ tampered' = TRUE
    /\ call' = [op |-> "forge"]
    /\ UNCHANGED <<argText, argFront, argChar, inst, first>>

\* b'SJZO' + level + length 4096 + a chunk count, and not one record
CraftStream ==
    /\ \E chunk_count \in DeclaredCounts :
          held' = Holding("bytes", SJZO \o <<3>> \o int_to_bytes(4096, 4)
                                        \o int_to_bytes(chunk_count, 2))
    /\ tampered' = TRUE
    /\ call' = [op |-> "craft"]
    /\ UNCHANGED <<argText, argFront, argChar, inst, first>>

NextForge ==
    \/ EncodeTextOptimized
    \/ DecodeTextOptimized
    \/ ForgeHeader
    \/ CraftStream

SpecForge == InitOpt /\ [][NextForge]_vars

(***************************************************************************)
(* hilbert_optimizer.py: a curve of some order, and the conversions of a   *)
(* coordinate triple or of an index, in range or just outside it           *)
(***************************************************************************)
\* every small order, and the order of the codec's curve
Orders == (1..MaxOrder) \cup {8}

\* every coordinate of a small grid and the two next to it; of a large one
\* the ends, the middle and the two next to it
GridInputs(self) ==
    IF self.order <= MaxOrder THEN (-1)..(self.max_coord + 1)
    ELSE {-1, 0, 1, self.max_coord \div 2, self.max_coord \div 2 + 1,
          self.max_coord, self.max_coord + 1}

IndexInputs(self) ==
    IF self.order <= MaxOrder THEN (-1)..self.total_points
    ELSE {-1, 0, 1, 7, 8, self.total_points \div 2 - 1, self.total_points \div 8 + 5,
          self.total_points - 2, self.total_points - 1, self.total_points}

InitHilbert ==
    /\ argText = <<>>
    /\ argFront = <<>>
    /\ argChar = <<>>
    /\ \E order \in Orders :
          /\ inst = HilbertCurve3D(order).val
          /\ \/ \E x, y, z \in GridInputs(inst) : held = Holding("coords", <<x, y, z>>)
             \/ \E index \in IndexInputs(inst) : held = Holding("index", index)
    /\ tampered = FALSE
    /\ call = NoCall
    /\ first = NoFirst

CoordsToHilbertIndex ==
    /\ Holds("coords")
    /\ call' = [op |-> "coords_3d_to_hilbert_index", arg |-> held.val,
                ret |-> coords_3d_to_hilbert_index(inst, held.val[1], held.val[2], held.val[3])]
    /\ held' = IF call'.ret.ok THEN Holding("index", call'.ret.val) ELSE held
    /\ UNCHANGED <<argText, argFront, argChar, inst, tampered, first>>

HilbertIndexTo3d ==
    /\ Holds("index")
    /\ call' = [op |-> "hilbert_index_to_3d", arg |-> held.val,
                ret |-> hilbert_index_to_3d(inst, held.val)]
    /\ held' = IF call'.ret.ok THEN Holding("coords", call'.ret.val) ELSE held
    /\ UNCHANGED <<argText, argFront, argChar, inst, tampered, first>>

NextHilbert == CoordsToHilbertIndex \/ HilbertIndexTo3d

SpecHilbert == InitHilbert /\ [][NextHilbert]_vars

(***************************************************************************)
(* integer_scaler.py: a scaler of some configuration, and the packing and  *)
(* unpacking of one coordinate quadruple                                   *)
(***************************************************************************)
\* bit widths a configuration is asked for: the narrowest, the defaults,
\* one above the widest default, and the two just outside 1..32
BitWidths == {0, 1, 12, 16, MaxBits, 33}

\* a coordinate below the range, in its middle, and above it
Halves == {-1, 1, 3}

InitScaler ==
    /\ argText = <<>>
    /\ argFront = <<>>
    /\ argChar = <<>>
    /\ \E x_bits \in BitWidths, y_bits \in {16, MaxBits}, z_bits \in BitWidths,
          t_bits \in BitWidths :
          /\ ScalingConfig(x_bits, y_bits, z_bits, t_bits).ok
          /\ inst = IntegerCoordinateScaler(ScalingConfig(x_bits, y_bits, z_bits, t_bits).val)
    /\ \E coords \in [1..4 -> Halves] : held = Holding("coords", coords)
    /\ tampered = FALSE
    /\ call = NoCall
    /\ first = NoFirst

ScaleToInteger ==
    /\ Holds("coords")
    /\ call' = [op |-> "scale_to_integer", ret |-> scale_to_integer(inst, held.val)]
    /\ UNCHANGED <<argText, argFront, argChar, inst, held, tampered, first>>

PackCoordinates ==
    /\ Holds("coords")
    /\ call' = [op |-> "pack_coordinates", ret |-> pack_coordinates(inst, held.val)]
    /\ held' = IF call'.ret.ok
               THEN Holding("packed", [coords |-> held.val, data |-> call'.ret.val])
               ELSE held
    /\ UNCHANGED <<argText, argFront, argChar, inst, tampered, first>>

UnpackCoordinates ==
    /\ Holds("packed")
    /\ call' = [op |-> "unpack_coordinates", ret |-> unpack_coordinates(inst, held.val.data)]
    /\ UNCHANGED <<argText, argFront, argChar, inst, held, tampered, first>>

NextScaler == ScaleToInteger \/ PackCoordinates \/ UnpackCoordinates

SpecScaler == InitScaler /\ [][NextScaler]_vars

(***************************************************************************)
(* dot.py: the dictionaries.  A client holds one dictionary, of any keys   *)
(* and values, and builds a DotPacket and a SingleDot from it.             *)
(***************************************************************************)
FrontIndexInputs == {-1, 0, ALPHABET_SIZE - 1, ALPHABET_SIZE}

LengthInputs == {0, 1, CHUNK_SIZE + 1}

\* "", "00", "0g", "f", "FF 0a"
HexInputs == {<<>>, <<48, 48>>, <<48, 103>>, <<102>>, <<70, 70, 32, 48, 97>>}

\* no coordinates given, and an x of 2.0
CoordinatesInputs == {EmptyDict, [x |-> FloatBits(<<64, 0, 0, 0, 0, 0, 0, 0>>)]}

DictKeys == {"front_char", "front_index", "length", "coordinates", "payload_hex"}

DictInputs ==
    {[key \in keys |-> full[key]] :
        keys \in SUBSET DictKeys,
        full \in [front_char : {chr(65), chr(1)}, front_index : FrontIndexInputs,
                  length : LengthInputs, coordinates : CoordinatesInputs,
                  payload_hex : HexInputs]}

InitDict ==
    /\ argText = <<>>
    /\ argFront = <<>>
    /\ argChar = <<>>
    /\ inst = OptimizedSJZIPCodec(3).val
    /\ held \in {Holding("dict", data) : data \in DictInputs}
    /\ tampered = FALSE
    /\ call = NoCall
    /\ first = NoFirst

DotPacketFromDict ==
    /\ Holds("dict")
    /\ call' = [op |-> "DotPacket.from_dict", ret |-> DotPacket_from_dict(held.val)]
    /\ UNCHANGED <<argText, argFront, argChar, inst, held, tampered, first>>

SingleDotFromDict ==
    /\ Holds("dict")
    /\ call' = [op |-> "SingleDot.from_dict", ret |-> SingleDot_from_dict(held.val)]
    /\ UNCHANGED <<argText, argFront, argChar, inst, held, tampered, first>>

NextDict == DotPacketFromDict \/ SingleDotFromDict

SpecDict == InitDict /\ [][NextDict]_vars

(***************************************************************************)
(* Decoding records of the client's own making: any front index, any       *)
(* length of a chunk and any payload, by the base codec, by the optimized  *)
(* codec of any level and as a single DOT.                                 *)
(***************************************************************************)
\* the byte strings of up to three bytes of N^L - 1 and of N^L, for every
\* length L of a chunk
BoundaryPayloads ==
    UNION {{int_to_bytes(v, k) : k \in {n \in 1..3 : v < 256 ^ n}} :
              v \in {ALPHABET_SIZE ^ L - d : L \in 1..CHUNK_SIZE, d \in {0, 1}}}

\* no byte, every byte up to N * N, the largest byte, and the boundaries
DecodeInputs ==
    {<<>>, <<255>>} \cup {<<b>> : b \in 0..(ALPHABET_SIZE * ALPHABET_SIZE)} \cup BoundaryPayloads

\* a record of the given fields at the default coordinates of from_dict
RecordOf(front_index, length, payload) ==
    DotRecord(front_index, length, FloatHalf, FloatHalf, FloatHalf, FloatZero, payload).val

InitDecode ==
    /\ argText = <<>>
    /\ argFront = <<>>
    /\ argChar = <<>>
    /\ \E optimization_level \in Levels :
          inst = OptimizedSJZIPCodec(optimization_level).val
    /\ \E front_index \in 0..(ALPHABET_SIZE - 1), length \in 1..CHUNK_SIZE,
          payload \in DecodeInputs :
          held = Holding("DotRecord", RecordOf(front_index, length, payload))
    /\ tampered = FALSE
    /\ call = NoCall
    /\ first = NoFirst

IndicesFromPayload ==
    /\ Holds("DotRecord")
    /\ call' = [op |-> "_indices_from_payload",
                ret |-> _indices_from_payload(held.val.payload, held.val.length)]
    /\ UNCHANGED <<argText, argFront, argChar, inst, held, tampered, first>>

\* the record in hand as a record of the optimized codec, decoded by it
DecodeRecordOptimized ==
    /\ Holds("DotRecord")
    /\ \E elapsed \in Durations :
          Returns("decode_chunk_optimized",
                  decode_chunk_optimized(
                      inst,
                      OptimizedDotRecord(held.val.front_index, held.val.length, 0,
                                         ZeroBytes(6), held.val.payload).val,
                      elapsed))
    /\ UNCHANGED <<argText, argFront, argChar, held, tampered, first>>

\* the record in hand as a single DOT of the front character of its index,
\* where that character makes one
SingleDotToText ==
    /\ Holds("DotRecord")
    /\ SingleDot(INDEX_TO_CHAR(held.val.front_index), held.val.front_index, held.val.length,
                 held.val.x, held.val.y, held.val.z, held.val.t, held.val.payload).ok
    /\ call' = [op |-> "single_dot_to_text",
                ret |-> single_dot_to_text(
                            SingleDot(INDEX_TO_CHAR(held.val.front_index),
                                      held.val.front_index, held.val.length,
                                      held.val.x, held.val.y, held.val.z, held.val.t,
                                      held.val.payload).val)]
    /\ UNCHANGED <<argText, argFront, argChar, inst, held, tampered, first>>

NextDecode == IndicesFromPayload \/ DecodeChunk \/ DecodeRecordOptimized \/ SingleDotToText

SpecDecode == InitDecode /\ [][NextDecode]_vars

(***************************************************************************)
(* Records that differ in their coordinates only: a client holds a record, *)
(* decodes it, replaces its four coordinates and decodes it again.         *)
(***************************************************************************)
\* the double 1.0
FloatOne == FloatBits(<<63, 240, 0, 0, 0, 0, 0, 0>>)

\* x, y, z, t: the corners of the range, and the coordinates of an entry of
\* the alphabet
CoordinateInputs ==
    {<<FloatZero, FloatZero, FloatZero, FloatZero>>,
     <<FloatOne, FloatOne, FloatOne, FloatOne>>,
     <<Coord("x", 3), Coord("y", 3), Coord("z", 3), Coord("t", 3)>>}

CoordPayloads ==
    {<<>>, <<0>>, <<ALPHABET_SIZE * ALPHABET_SIZE - 1>>, <<1, 0>>}

\* the result of a call is kept, with the record it was made on, the first
\* time the call is made
Keep(memo, record, r) ==
    IF memo.some THEN memo ELSE [some |-> TRUE, val |-> r, record |-> record]

InitCoords ==
    /\ argText = <<>>
    /\ argFront = <<>>
    /\ argChar = <<>>
    /\ inst = OptimizedSJZIPCodec(3).val
    /\ \E front_index \in 0..(ALPHABET_SIZE - 1), length \in 1..CHUNK_SIZE,
          payload \in CoordPayloads :
          held = Holding("DotRecord", RecordOf(front_index, length, payload))
    /\ tampered = FALSE
    /\ call = NoCall
    /\ first = [decode_chunk |-> Nothing, dots_to_text |-> [n \in 1..2 |-> Nothing]]

\* a record of the same front_index, length and payload at other coordinates
SetCoordinates ==
    /\ Holds("DotRecord")
    /\ \E q \in CoordinateInputs :
          held' = Holding("DotRecord",
                          DotRecord(held.val.front_index, held.val.length,
                                    q[1], q[2], q[3], q[4], held.val.payload).val)
    /\ tampered' = TRUE
    /\ call' = [op |-> "DotRecord"]
    /\ UNCHANGED <<argText, argFront, argChar, inst, first>>

DecodeChunkKept ==
    /\ Holds("DotRecord")
    /\ call' = [op |-> "decode_chunk", ret |-> decode_chunk(held.val)]
    /\ first' = [first EXCEPT !.decode_chunk = Keep(@, held.val, call'.ret)]
    /\ UNCHANGED <<argText, argFront, argChar, inst, held, tampered>>

\* one or two packets of the fields of the record in hand
DotsToText ==
    /\ Holds("DotRecord")
    /\ DotPacket(INDEX_TO_CHAR(held.val.front_index), held.val.front_index, held.val.length,
                 held.val.x, held.val.y, held.val.z, held.val.t, held.val.payload).ok
    /\ \E n \in 1..2 :
          /\ call' = [op |-> "dots_to_text", n |-> n,
                      ret |-> dots_to_text(
                                  [k \in 1..n |->
                                      DotPacket(INDEX_TO_CHAR(held.val.front_index),
                                                held.val.front_index, held.val.length,
                                                held.val.x, held.val.y, held.val.z,
                                                held.val.t, held.val.payload).val])]
          /\ first' = [first EXCEPT !.dots_to_text[n] = Keep(@, held.val, call'.ret)]
    /\ UNCHANGED <<argText, argFront, argChar, inst, held, tampered>>

NextCoords == SetCoordinates \/ DecodeChunkKept \/ DotsToText

SpecCoords == InitCoords /\ [][NextCoords]_vars

(***************************************************************************)
(* dot.py: a whole text as a single DOT                                    *)
(***************************************************************************)
TextToSingleDot ==
    /\ call' = [op |-> "text_to_single_dot", ret |-> text_to_single_dot(argText)]
    /\ held' = IF call'.ret.ok THEN Holding("SingleDot", call'.ret.val) ELSE Nothing
    /\ UNCHANGED <<argText, argFront, argChar, inst, tampered, first>>

DecodeSingleDot ==
    /\ Holds("SingleDot")
    /\ call' = [op |-> "single_dot_to_text", ret |-> single_dot_to_text(held.val)]
    /\ UNCHANGED <<argText, argFront, argChar, inst, held, tampered, first>>

NextSingle == TextToSingleDot \/ DecodeSingleDot

SpecSingle == Init /\ [][NextSingle]_vars

(***************************************************************************)
(* Workers of an external orchestrator.  Worker i encodes chunk i of the   *)
(* text with encode_chunk_optimized, all on the one instance; when every   *)
(* record is there, worker i decodes record i with decode_chunk_optimized. *)
(* A call reads the instance when it starts and makes each of its          *)
(* assignments to self.stats as a step of its own, so the assignments of   *)
(* different workers interleave in every order.                            *)
(***************************************************************************)
\* texts of two and of three chunks
WorkerInputs == {t \in RunTexts(LongChars, MaxLongLen) : Len(t) >= 2 * CHUNK_SIZE}

Idle(record) == [pc |-> "start", record |-> record, ret |-> Nothing, stats |-> NewStats]

InitWorkers ==
    /\ argText \in WorkerInputs
    /\ argFront = <<>>
    /\ argChar = <<>>
    /\ \E optimization_level \in Levels :
          inst = OptimizedSJZIPCodec(optimization_level).val
    /\ held = Holding("workers",
                      [mode |-> "encode",
                       workers |-> [i \in 1..((Len(argText) + CHUNK_SIZE - 1) \div CHUNK_SIZE)
                                       |-> Idle(Nothing)]])
    /\ tampered = FALSE
    /\ call = NoCall
    /\ first = NoFirst

\* the call of a worker has computed its result r.ret from the instance as
\* it was; when it goes on to the statistics, the assignments of
\* r.self.stats are still to be made, beginning with the one named
Computed(worker, r, assignment) ==
    [worker EXCEPT !.pc = assignment, !.ret = r.ret, !.stats = r.self.stats]

\* encode_chunk_optimized up to its first assignment to self.stats; the
\* call ends before it when it raises and when the level is 0
WorkerEncode(i) ==
    /\ held.val.mode = "encode"
    /\ held.val.workers[i].pc = "start"
    /\ \E elapsed \in Durations :
          held' = [held EXCEPT !.val.workers[i] =
                      Computed(@, encode_chunk_optimized(
                                      inst, Slice(argText, (i - 1) * CHUNK_SIZE, i * CHUNK_SIZE),
                                      elapsed),
                               IF inst.optimization_level = 0 THEN "done"
                               ELSE "compression_time")]
    /\ call' = [op |-> "encode_chunk_optimized", worker |-> i]
    /\ UNCHANGED <<argText, argFront, argChar, inst, tampered, first>>

\* decode_chunk_optimized up to its assignment to self.stats
WorkerDecode(i) ==
    /\ held.val.mode = "decode"
    /\ held.val.workers[i].pc = "start"
    /\ \E elapsed \in Durations :
          held' = [held EXCEPT !.val.workers[i] =
                      Computed(@, decode_chunk_optimized(inst, @.record, elapsed),
                               "decompression_time")]
    /\ call' = [op |-> "decode_chunk_optimized", worker |-> i]
    /\ UNCHANGED <<argText, argFront, argChar, inst, tampered, first>>

\* the assignment after each one, in the order of the source
NextAssignment ==
    [compression_time |-> "original_size", original_size |-> "compressed_size",
     compressed_size |-> "done", decompression_time |-> "done"]

\* self.stats[key] = value, by worker i
WorkerAssign(i) ==
    /\ held.val.workers[i].pc \in DOMAIN NextAssignment
    /\ inst' = [inst EXCEPT !.stats[held.val.workers[i].pc] =
                                held.val.workers[i].stats[held.val.workers[i].pc]]
    /\ held' = [held EXCEPT !.val.workers[i].pc = NextAssignment[@]]
    /\ call' = [op |-> "assign", worker |-> i]
    /\ UNCHANGED <<argText, argFront, argChar, tampered, first>>

AllDone == \A i \in DOMAIN held.val.workers : held.val.workers[i].pc = "done"

\* the orchestrator joins the serialized records in chunk order
JoinRecords ==
    /\ held.val.mode = "encode"
    /\ AllDone
    /\ call' = [op |-> "join_records",
                ret |-> JoinPacked([i \in DOMAIN held.val.workers |->
                                       OptimizedDotRecord_to_bytes(held.val.workers[i].ret.val)],
                                   1, <<>>)]
    /\ UNCHANGED <<argText, argFront, argChar, inst, held, tampered, first>>

\* the records go back to the workers, to be decoded
StartDecoding ==
    /\ held.val.mode = "encode"
    /\ AllDone
    /\ \A i \in DOMAIN held.val.workers : held.val.workers[i].ret.ok
    /\ held' = [held EXCEPT !.val.mode = "decode",
                            !.val.workers = [i \in DOMAIN @ |-> Idle(@[i].ret.val)]]
    /\ call' = [op |-> "start_decoding"]
    /\ UNCHANGED <<argText, argFront, argChar, inst, tampered, first>>

\* the orchestrator joins the decoded texts in chunk order
JoinTexts ==
    /\ held.val.mode = "decode"
    /\ AllDone
    /\ call' = [op |-> "join_texts",
                ret |-> JoinPacked([i \in DOMAIN held.val.workers |-> held.val.workers[i].ret],
                                   1, <<>>)]
    /\ UNCHANGED <<argText, argFront, argChar, inst, held, tampered, first>>

NextWorkers ==
    \/ \E i \in DOMAIN held.val.workers : WorkerEncode(i)
    \/ \E i \in DOMAIN held.val.workers : WorkerDecode(i)
    \/ \E i \in DOMAIN held.val.workers : WorkerAssign(i)
    \/ JoinRecords
    \/ StartDecoding
    \/ JoinTexts

SpecWorkers == InitWorkers /\ [][NextWorkers]_vars

(***************************************************************************)
(* The base codec and a client that declares another length: the record of *)
(* encode_chunk is rebuilt with the same fields and a length of its choice *)
(***************************************************************************)
DeclareLength ==
    /\ Holds("DotRecord")
    /\ ~tampered
    /\ \E length \in (1..CHUNK_SIZE) \ {held.val.length} :
          held' = Holding("DotRecord",
                          DotRecord(held.val.front_index, length, held.val.x, held.val.y,
                                    held.val.z, held.val.t, held.val.payload).val)
    /\ tampered' = TRUE
    /\ call' = [op |-> "DotRecord"]
    /\ UNCHANGED <<argText, argFront, argChar, inst, first>>

NextLength == EncodeChunk \/ DecodeChunk \/ DeclareLength

SpecLength == Init /\ [][NextLength]_vars

(***************************************************************************)
(* The optimized codec at its limits: runs of one character of any length  *)
(* up to the text size limit and beyond                                    *)
(***************************************************************************)
\* around one chunk, the limit of validate_text, the largest chunk count of
\* the 2-byte field, and MAX_TEXT_SIZE in characters of three bytes and of
\* one
RunLengths ==
    {0, 1, 499, 500, 501, 999500, 999501, 999999, 1000000, 1000001,
     32767500, 32767501, 34952533, 34952534, 104857600, 104857601}

RunChars == {1, 44, 54616}

InitLimits ==
    /\ argText \in {RunText(char, count) : char \in RunChars, count \in RunLengths}
    /\ argFront = <<>>
    /\ argChar = <<>>
    /\ \E optimization_level \in Levels :
          inst = OptimizedSJZIPCodec(optimization_level).val
    /\ InitCommon

EncodeRun ==
    /\ \E elapsed \in Durations :
          Returns("encode_text_optimized", encode_run_optimized(inst, argText, elapsed))
    /\ held' = IF call'.ret.ok THEN Holding("bytes", call'.ret.val) ELSE Nothing
    /\ UNCHANGED <<argText, argFront, argChar, tampered, first>>

NextLimits == EncodeRun \/ DecodeTextOptimized

SpecLimits == InitLimits /\ [][NextLimits]_vars

(***************************************************************************)
(* Properties                                                              *)
(***************************************************************************)
\* a text the chunk encoder is specified for: 1..CHUNK_SIZE characters, each
\* of them in the alphabet
Supported(t) == \A i \in 1..Len(t) : chr(t[i]) \in SUPPORTED_CHARS

ValidChunk(t) == 1 <= Len(t) /\ Len(t) <= CHUNK_SIZE /\ Supported(t)

RECURSIVE PositionalValue(_)
PositionalValue(ds) ==
    IF ds = <<>> THEN 0
    ELSE PositionalValue(SubSeq(ds, 1, Len(ds) - 1)) * ALPHABET_SIZE + ds[Len(ds)]

\* the integer a big-endian byte string stands for
RECURSIVE BigEndianValue(_)
BigEndianValue(bs) ==
    IF bs = <<>> THEN 0
    ELSE BigEndianValue(SubSeq(bs, 1, Len(bs) - 1)) * 256 + bs[Len(bs)]

\* the digits of t: the positions of its characters in the order of t[0]
FrontPositions(t) == [i \in 1..Len(t) |-> front_position(chr(t[1]), chr(t[i])).val]

\* bs is the shortest big-endian byte string of value, one zero byte for 0
MinimalBigEndian(bs, value) ==
    /\ bs # <<>>
    /\ BigEndianValue(bs) = value
    /\ value = 0 => bs = <<0>>
    /\ value # 0 => bs[1] # 0

\* r carries the four coordinates computed from the alphabet index idx
SpiralCoordinates(r, idx) ==
    /\ r.x = Coord("x", idx) /\ r.y = Coord("y", idx)
    /\ r.z = Coord("z", idx) /\ r.t = Coord("t", idx)

RECURSIVE MembersString(_, _)
MembersString(s, n) ==
    IF n = 0 THEN s = <<>>
    ELSE \E e \in SUPPORTED_CHARS :
            /\ Len(e) <= Len(s)
            /\ SubSeq(s, 1, Len(e)) = e
            /\ MembersString(SubSeq(s, Len(e) + 1, Len(s)), n - 1)

C4_AlphabetWellFormed ==
    /\ \A j, k \in 1..Len(ALPHABET) : j # k => ALPHABET[j] # ALPHABET[k]
    /\ ALPHABET[1] = chr(0)
    /\ (call.op = "ensure_supported" /\ argText \in SUPPORTED_CHARS) =>
           Len(argText) = 1 /\ call.ret.ok

\* the indices of text, 0-based, whose character is no alphabet member
BadIndices(text) == {i \in 0..(Len(text) - 1) : chr(text[i + 1]) \notin SUPPORTED_CHARS}

Smallest(S) == CHOOSE i \in S : \A j \in S : i <= j

\* C10: validate_text(text, maxLen) fails with the too-long error whenever
\* |text| > maxLen, whatever the characters; otherwise with the
\* unsupported-character error at the smallest index of a non-member;
\* otherwise it succeeds.
C10_ValidateTextOrder ==
    call.op = "validate_text" =>
        IF Len(argText) > call.max_length
        THEN call.ret = Err("Text exceeds maximum length")
        ELSE IF BadIndices(argText) # {}
        THEN call.ret = ErrAt("Unsupported character at position",
                              Smallest(BadIndices(argText)))
        ELSE call.ret = Ok(None)

C10_Witness ==
    /\ call.op = "validate_text"
    /\ Len(argText) > call.max_length
    /\ call.max_length > 0
    /\ BadIndices(argText) # {}
    /\ call.ret = Err("Text exceeds maximum length")

\* order holds every alphabet entry exactly once
IsPermutationOfAlphabet(order) ==
    /\ Len(order) = ALPHABET_SIZE
    /\ {order[k] : k \in 1..Len(order)} = SUPPORTED_CHARS
    /\ \A j, k \in 1..Len(order) : j # k => order[j] # order[k]

\* C3: for every alphabet member f, front_order(f) succeeds and is a
\* permutation of the alphabet, and for every alphabet member c,
\* front_position(f, c) succeeds and returns the i with front_order(f)[i] = c.
C3_FrontBijection ==
    argFront \in SUPPORTED_CHARS =>
        /\ call.op = "front_order" =>
               call.ret.ok /\ IsPermutationOfAlphabet(call.ret.val)
        /\ (call.op = "front_position" /\ argChar \in SUPPORTED_CHARS) =>
               /\ call.ret.ok
               /\ call.ret.val \in 0..(ALPHABET_SIZE - 1)
               /\ front_order(argFront).val[call.ret.val + 1] = argChar

C6_OptimizedChunkLimit ==
    (call.op = "encode_chunk_optimized" /\ Len(argText) > CHUNK_SIZE) =>
        ~call.ret.ok /\ held = Nothing

C11_EnsureSupportedErrors ==
    call.op = "ensure_supported" =>
        /\ ~Supported(argText) => call.ret = Err("Unsupported character")
        /\ (Len(argText) > 1 /\ Supported(argText)) =>
               call.ret = Err("Expected single character")

\* C12: for every valid DotRecord r and every byte string s,
\* DotRecord.from_bytes(r.to_bytes() + s) returns a record equal to r in
\* all fields, and exactly s as the rest; r.to_bytes() is a 40-byte
\* big-endian header, front_index (2), length (2), x, y, z, t (8 each),
\* payload_len (4), followed by payload_len bytes of payload.
C12_RecordBytesRoundTrip ==
    /\ call.op = "to_bytes" =>
           /\ call.ret.ok
           /\ Len(call.ret.val) = 40 + Len(call.record.payload)
           /\ BigEndianValue(SubSeq(call.ret.val, 1, 2)) = call.record.front_index
           /\ BigEndianValue(SubSeq(call.ret.val, 3, 4)) = call.record.length
           /\ SubSeq(call.ret.val, 5, 12) = pack_double(call.record.x)
           /\ SubSeq(call.ret.val, 13, 20) = pack_double(call.record.y)
           /\ SubSeq(call.ret.val, 21, 28) = pack_double(call.record.z)
           /\ SubSeq(call.ret.val, 29, 36) = pack_double(call.record.t)
           /\ BigEndianValue(SubSeq(call.ret.val, 37, 40)) = Len(call.record.payload)
           /\ SubSeq(call.ret.val, 41, Len(call.ret.val)) = call.record.payload
    /\ call.op = "from_bytes" =>
           call.ret = Ok([record |-> call.record, rest |-> held.val.rest])

C12_Witness ==
    /\ call.op = "from_bytes"
    /\ call.ret.ok
    /\ call.ret.val.record.front_index = ALPHABET_SIZE - 1
    /\ call.ret.val.record.x = FloatBits(<<63, 240, 0, 0, 0, 0, 0, 0>>)
    /\ call.ret.val.record.payload = <<255, 1>>
    /\ Len(call.ret.val.rest) > 40

\* the bytes at mv begin with a record that parses: a whole 40-byte header,
\* payload_len within the maximum, the whole payload, and fields in range
RecordParses(mv) ==
    /\ Len(mv) >= 40
    /\ mv[37] = 0
    /\ BigEndianValue(SubSeq(mv, 38, 40)) <= MAX_PAYLOAD_SIZE
    /\ Len(mv) >= 40 + BigEndianValue(SubSeq(mv, 38, 40))
    /\ BigEndianValue(SubSeq(mv, 1, 2)) < ALPHABET_SIZE
    /\ BigEndianValue(SubSeq(mv, 3, 4)) \in 1..CHUNK_SIZE
    /\ \A k \in 0..3 : InUnitRange(unpack_double(SubSeq(mv, 5 + 8 * k, 12 + 8 * k)))

\* every record up to the end of the stream parses and decodes
RECURSIVE EveryRecordDecodes(_)
EveryRecordDecodes(mv) ==
    \/ mv = <<>>
    \/ /\ RecordParses(mv)
       /\ decode_chunk(DotRecord_from_bytes(mv).val.record).ok
       /\ EveryRecordDecodes(SubSeq(mv, 41 + BigEndianValue(SubSeq(mv, 38, 40)), Len(mv)))

\* the texts of all the records of a stream, joined
RECURSIVE TextOfRecords(_)
TextOfRecords(mv) ==
    IF mv = <<>> THEN <<>>
    ELSE decode_chunk(DotRecord_from_bytes(mv).val.record).val
             \o TextOfRecords(SubSeq(mv, 41 + BigEndianValue(SubSeq(mv, 38, 40)), Len(mv)))

WellFormedFile(file) ==
    /\ file.some
    /\ Len(file.val) >= 6
    /\ SubSeq(file.val, 1, 4) = <<83, 74, 90, 49>>
    /\ BigEndianValue(SubSeq(file.val, 5, 6)) = CHUNK_SIZE
    /\ EveryRecordDecodes(SubSeq(file.val, 7, Len(file.val)))

ChunkCount(t) == (Len(t) + CHUNK_SIZE - 1) \div CHUNK_SIZE

\* characters [i*ChunkSize, min((i+1)*ChunkSize, |t|)) of t, for i from 0
ChunkOf(t, i) ==
    SubSeq(t, i * CHUNK_SIZE + 1,
           IF (i + 1) * CHUNK_SIZE < Len(t) THEN (i + 1) * CHUNK_SIZE ELSE Len(t))

\* the file of t: the magic, the chunk size, and the records of its chunks
RECURSIVE RecordsFrom(_, _)
RecordsFrom(t, i) ==
    IF i >= ChunkCount(t) THEN <<>>
    ELSE DotRecord_to_bytes(encode_chunk(ChunkOf(t, i)).val).val \o RecordsFrom(t, i + 1)

DeclaredCount(data) == BigEndianValue(SubSeq(data, 10, 11))

DeclaredLength(data) == BigEndianValue(SubSeq(data, 6, 9))

\* C15: decode_text_optimized rejects a stream whose header declares 65535
\* chunks, the largest value of the 2-byte field, with the 'Too many
\* chunks' error, before it parses any record.
C15_TooManyChunks ==
    (call.op = "decode_text_optimized" /\ DeclaredCount(held.val) = 65535) =>
        call.ret = Err("Too many chunks")

RecordsInHand == IF Len(held.val) > 11 THEN ChunkCount(argText) ELSE 0

\* what the first n records of the stream decode to
DecodedPrefix(n) ==
    SubSeq(argText, 1, IF n * CHUNK_SIZE < Len(argText) THEN n * CHUNK_SIZE ELSE Len(argText))

C18_HilbertRoundTrip ==
    /\ (call.op = "coords_3d_to_hilbert_index"
            /\ \A k \in 1..3 : call.arg[k] \in 0..(2 ^ inst.order - 1)) =>
           /\ call.ret.ok
           /\ call.ret.val \in 0..(2 ^ (3 * inst.order) - 1)
           /\ hilbert_index_to_3d(inst, call.ret.val) = Ok(call.arg)
    /\ (call.op = "hilbert_index_to_3d" /\ call.arg \in 0..(2 ^ (3 * inst.order) - 1)) =>
           /\ call.ret.ok
           /\ \A k \in 1..3 : call.ret.val[k] \in 0..(2 ^ inst.order - 1)
           /\ coords_3d_to_hilbert_index(inst, call.ret.val[1], call.ret.val[2],
                                         call.ret.val[3]) = Ok(call.arg)

C18_Witness ==
    /\ call.op = "hilbert_index_to_3d"
    /\ inst.order = MaxOrder
    /\ call.arg = inst.total_points - 2
    /\ call.ret.ok
    /\ call.ret.val[1] # call.ret.val[2]
    /\ coords_3d_to_hilbert_index(inst, call.ret.val[1], call.ret.val[2],
                                  call.ret.val[3]) = Ok(call.arg)

\* the order-8 curve index of the grid coordinates of a character
HilbertIndexOf(char) ==
    coords_3d_to_hilbert_index(HilbertCurve3D(8).val,
                               ScaledCoordinates[CHAR_TO_INDEX(char) + 1][1],
                               ScaledCoordinates[CHAR_TO_INDEX(char) + 1][2],
                               ScaledCoordinates[CHAR_TO_INDEX(char) + 1][3]).val

\* C17: at optimization level 3, the hilbert_index of the record of
\* encode_chunk_optimized(t) is the order-8 curve index of the (x, y, z) of
\* t's last character, scaled to the 256^3 grid.
C17_HilbertIndexOfLastChar ==
    (call.op = "encode_chunk_optimized" /\ inst.optimization_level = 3
         /\ ValidChunk(argText)) =>
        /\ call.ret.ok
        /\ call.ret.val.hilbert_index = HilbertIndexOf(chr(argText[Len(argText)]))

\* C19: for every ScalingConfig that passes validation, the quadruple
\* (x_int, y_int, z_int, t_int) of scale_to_integer is what the
\* shift-and-mask step of unpack_coordinates recovers from the 8-byte word
\* of pack_coordinates: no field is truncated, no two fields overlap.
C19_PackedFieldsRecovered ==
    call.op = "unpack_coordinates" =>
        /\ call.ret.ok
        /\ [k \in 1..4 |-> call.ret.val[k].num]
               = scale_to_integer(inst, held.val.coords).val

\* under the default configuration (16, 16, 16, 12) every field is recovered
DefaultConfigRecovered ==
    (call.op = "unpack_coordinates"
         /\ inst.config = [x_bits |-> 16, y_bits |-> 16, z_bits |-> 16, t_bits |-> 12]) =>
        /\ call.ret.ok
        /\ [k \in 1..4 |-> call.ret.val[k].num]
               = scale_to_integer(inst, held.val.coords).val

\* a dictionary that from_dict has to refuse: a required key is missing, or
\* front_index is outside [0, N), or payload_hex is not hexadecimal
RequiredMissing(data) == {"front_index", "length", "payload_hex"} \ DOMAIN data # {}

Malformed(data) ==
    \/ RequiredMissing(data)
    \/ ~(0 <= data.front_index /\ data.front_index < ALPHABET_SIZE)
    \/ ~fromhex(data.payload_hex, 1, <<>>).ok

\* C21: DotPacket.from_dict and SingleDot.from_dict fail with a ValueError
\* and build no object whenever the mapping lacks any of front_index, length
\* or payload_hex, carries a front_index outside [0, N), or carries a
\* payload_hex that is not valid hexadecimal.
C21_FromDictValidates ==
    (call.op \in {"DotPacket.from_dict", "SingleDot.from_dict"} /\ Malformed(held.val)) =>
        IsValueError(call.ret)

\* what does hold: a malformed dictionary builds no object, and the error is
\* a ValueError unless front_index is negative
FromDictRefuses ==
    (call.op \in {"DotPacket.from_dict", "SingleDot.from_dict"} /\ Malformed(held.val)) =>
        /\ ~call.ret.ok
        /\ (RequiredMissing(held.val) \/ held.val.front_index >= 0) => IsValueError(call.ret)

\* C22: every encode and decode call of OptimizedSJZIPCodec
\* (encode_chunk_optimized, decode_chunk_optimized, encode_text_optimized,
\* decode_text_optimized) leaves every field of the instance unchanged, at
\* every optimization level.
C22_CallsAreStateless ==
    [][call'.op \in {"encode_chunk_optimized", "decode_chunk_optimized",
                     "encode_text_optimized", "decode_text_optimized"} => inst' = inst]_vars

\* what does hold: the calls leave the optimization level alone, and at
\* level 0 the encoders leave the statistics alone
LevelIsKept ==
    [][/\ call'.op # "OptimizedSJZIPCodec" => inst'.optimization_level = inst.optimization_level
       /\ (inst.optimization_level = 0 /\
           call'.op \in {"encode_chunk_optimized", "encode_text_optimized"}) => inst' = inst]_vars

\* C26: _indices_from_payload(payload, L), for a non-empty payload within
\* the size limit and 1 <= L <= ChunkSize, fails exactly when the payload's
\* big-endian unsigned value V satisfies V >= N^L; otherwise it returns the
\* sequence of L base-N digits, most significant first and left-padded with
\* zeros, whose positional value is V.
C26_IndicesOfPayload ==
    (call.op = "_indices_from_payload" /\ held.val.payload # <<>>) =>
        /\ ~call.ret.ok <=>
               BigEndianValue(held.val.payload) >= ALPHABET_SIZE ^ held.val.length
        /\ call.ret.ok =>
               /\ Len(call.ret.val) = held.val.length
               /\ \A i \in 1..Len(call.ret.val) :
                      0 <= call.ret.val[i] /\ call.ret.val[i] < ALPHABET_SIZE
               /\ PositionalValue(call.ret.val) = BigEndianValue(held.val.payload)

\* a two-byte payload of a full chunk whose digits begin with a zero and end
\* with another digit
C26_Witness ==
    /\ call.op = "_indices_from_payload"
    /\ Len(held.val.payload) = 2
    /\ held.val.payload[1] # 0
    /\ held.val.length = CHUNK_SIZE
    /\ call.ret.ok
    /\ call.ret.val[1] = 0
    /\ call.ret.val[CHUNK_SIZE] = ALPHABET_SIZE - 1

\* the decoders agree: both fail, or both return the same text
SameText(r1, r2) == (r1.ok <=> r2.ok) /\ (r1.ok => r1.val = r2.val)

C24_SingleDotRoundTrip ==
    /\ (call.op = "text_to_single_dot" /\ argText # <<>> /\ Supported(argText)) =>
           call.ret.ok /\ call.ret.val.length = Len(argText)
    /\ call.op = "single_dot_to_text" => call.ret = Ok(argText)

\* what does hold: the round trip of a text of at most CHUNK_SIZE
\* characters, and the refusal of a longer one
SingleDotWithinChunk ==
    /\ (call.op = "text_to_single_dot" /\ Supported(argText)) =>
           /\ call.ret.ok <=> ValidChunk(argText)
           /\ call.ret.ok => call.ret.val.length = Len(argText)
    /\ call.op = "single_dot_to_text" => call.ret = Ok(argText)

\* an instance of the level in use that has made no call
FreshCodec == OptimizedSJZIPCodec(inst.optimization_level).val

\* what one sequential encode_text_optimized of the text returns
SequentialStream == encode_text_optimized(FreshCodec, argText, 1).ret.val

\* what worker i returns when it is the only caller of a fresh instance
AloneResult(i) ==
    IF held.val.mode = "encode"
    THEN encode_chunk_optimized(FreshCodec,
                                Slice(argText, (i - 1) * CHUNK_SIZE, i * CHUNK_SIZE), 1).ret
    ELSE decode_chunk_optimized(FreshCodec, held.val.workers[i].record, 1).ret

AnchoredOrder(order, f) ==
    LET Other(c) == c \notin {f, chr(65)}
    IN  /\ order[1] = f
        /\ f # chr(65) => order[2] = chr(65)
        /\ SubSeq(order, IF f = chr(65) THEN 2 ELSE 3, Len(order)) = SelectSeq(ALPHABET, Other)

\* C27: for every alphabet member f, front_order(f)[0] == f,
\* front_order(f)[1] == 'A' when f != 'A', and the remaining positions list
\* all other alphabet members in canonical alphabet order (for f == 'A',
\* positions 1.. are the canonical order without 'A').
C27_FrontOrderShape ==
    (call.op = "front_order" /\ argFront \in SUPPORTED_CHARS) =>
        call.ret.ok /\ AnchoredOrder(call.ret.val, argFront)

\* what does hold: the shape of the order of every member of one code
\* point, and of every entry of the table
FrontOrderShapeOfCharacters ==
    /\ (call.op = "front_order" /\ argFront \in SUPPORTED_CHARS /\ Len(argFront) = 1) =>
           call.ret.ok /\ AnchoredOrder(call.ret.val, argFront)
    /\ \A f \in DOMAIN _FRONT_ORDERS : AnchoredOrder(_FRONT_ORDERS[f], f)

====
